---- MODULE Spec2Model ----
(***************************************************************************)
(* A model of the go-adb Device client (device.go, device_extra.go) run    *)
(* against the MockServer test double.                                     *)
(*                                                                         *)
(* Go strings are sequences of one-character strings, so that quoting,     *)
(* joining, splitting and parsing are computed character by character as   *)
(* the library routines compute them.                                      *)
(***************************************************************************)
EXTENDS Integers, Sequences, FiniteSets, TLC

VARIABLES
    server,   \* the MockServer the Device talks to
    conns,    \* the connections dialed so far: conns[i] is "open" or "closed"
    ret,      \* the operation called: its name, inputs and results
    build     \* what the platform and the wire package fix: the width of int,
              \* and what Close does when called on a nil *wire.Conn

vars == <<server, conns, ret, build>>

(***************************************************************************)
(* Bounds of the model.                                                    *)
(***************************************************************************)
MaxArgs == 2

MaxErrs == 5

MaxRows == 3

MaxCalls == 2

MaxDevices == 3

MaxLines == 2

MaxSize == 3

MaxChunk == 2

MaxOps == 2

MaxQueue == 3

(***************************************************************************)
(* Characters and the string routines of the Go library that the code      *)
(* calls (strings.ContainsRune, strings.Join, ...).                         *)
(***************************************************************************)
DQ == "\""
SP == " "
CR == "\r"
LF == "\n"
TAB == "\t"
COLON == ":"

\* Bind(v, F) is F(v): it names an intermediate result, as a Go local
\* variable does.
Bind(v, F(_)) == F(v)

\* unicode.IsSpace, over the characters of the model
IsSpace(c) == c \in {SP, TAB, LF, CR}

SeqsUpTo(S, n) == UNION {[1..k -> S] : k \in 0..n}

ContainsRune(s, c) == \E i \in 1..Len(s) : s[i] = c

RECURSIVE Join(_, _)
Join(elems, sep) ==
    IF Len(elems) = 0 THEN <<>>
    ELSE IF Len(elems) = 1 THEN elems[1]
    ELSE elems[1] \o sep \o Join(Tail(elems), sep)

(***************************************************************************)
(* Errors.  nil is Go's nil error; an *errors.Err carries its code (kind)  *)
(* and message; wrapping keeps the code and records the cause.             *)
(***************************************************************************)
nil == [kind |-> "nil"]

AssertionErrorf(msg) == [kind |-> "AssertionError", msg |-> msg]

\* A variant of the quote error that counts the arguments from 1.
ParseErrorQuote_OneBased(i, arg) ==
    [kind |-> "ParseError",
     msg |-> "arg at index %d contains an invalid double quote: %s",
     index |-> i + 1, arg |-> arg]

\* errors.Errorf(errors.ParseError, "arg at index %d contains an invalid
\* double quote: %s", i, arg)
ParseErrorQuote(i, arg) ==
    [kind |-> "ParseError",
     msg |-> "arg at index %d contains an invalid double quote: %s",
     index |-> i, arg |-> arg]

wrapClientError(err, op) ==
    IF err = nil THEN nil
    ELSE [kind |-> err.kind, msg |-> "error performing %s", op |-> op, cause |-> err]

(***************************************************************************)
(* prepareCommandLine                                                      *)
(***************************************************************************)
isBlank(s) == \A i \in 1..Len(s) : IsSpace(s[i])

containsWhitespace(s) == \E i \in 1..Len(s) : IsSpace(s[i])

\* A variant of the loop that leaves arguments with whitespace as they are.
RECURSIVE quoteArgs_NeverQuotes(_, _)
quoteArgs_NeverQuotes(args, i) ==
    IF i > Len(args) THEN [args |-> args, err |-> nil]
    ELSE IF ContainsRune(args[i], DQ)
         THEN [args |-> args, err |-> ParseErrorQuote(i - 1, args[i])]
         ELSE quoteArgs_NeverQuotes(args, i + 1)

\* The loop over the arguments, from (1-based) position i on.  args is the
\* slice the caller passed: quoting assigns to its elements.
RECURSIVE quoteArgs(_, _)
quoteArgs(args, i) ==
    IF i > Len(args) THEN [args |-> args, err |-> nil]
    ELSE LET arg == args[i] IN
         IF ContainsRune(arg, DQ)
         THEN [args |-> args, err |-> ParseErrorQuote(i - 1, arg)]
         ELSE IF containsWhitespace(arg)
              THEN quoteArgs([args EXCEPT ![i] = <<DQ>> \o arg \o <<DQ>>], i + 1)
              ELSE quoteArgs(args, i + 1)

\* A variant that looks at the arguments before it looks at the command.
prepareCommandLine_ArgsFirst(cmd, args) ==
    Bind(quoteArgs(args, 1), LAMBDA q :
    IF q.err # nil
    THEN [out |-> <<>>, err |-> q.err, args |-> q.args]
    ELSE IF isBlank(cmd)
         THEN [out |-> <<>>, err |-> AssertionErrorf("command cannot be empty"),
               args |-> q.args]
         ELSE [out |-> IF Len(q.args) > 0
                       THEN cmd \o <<SP>> \o Join(q.args, <<SP>>)
                       ELSE cmd,
               err |-> nil, args |-> q.args])

\* Returns the command line, the error, and the elements of args as the call
\* leaves them.
prepareCommandLine(cmd, args) ==
    IF isBlank(cmd)
    THEN [out |-> <<>>, err |-> AssertionErrorf("command cannot be empty"),
          args |-> args]
    ELSE Bind(quoteArgs(args, 1), LAMBDA q :
         IF q.err # nil
         THEN [out |-> <<>>, err |-> q.err, args |-> q.args]
         ELSE [out |-> IF Len(q.args) > 0
                       THEN cmd \o <<SP>> \o Join(q.args, <<SP>>)
                       ELSE cmd,
               err |-> nil, args |-> q.args])

(***************************************************************************)
(* More of the Go library: strings.LastIndexByte, TrimSpace, Replace and   *)
(* strconv.Atoi.  A Go int is held as its decimal numeral (what            *)
(* strconv.Itoa prints), so that both widths of int are exact.             *)
(***************************************************************************)
\* strings.IndexByte: 0-based index of the first c in s, -1 when there is none
IndexByte(s, c) ==
    IF ContainsRune(s, c)
    THEN (CHOOSE i \in 1..Len(s) :
              s[i] = c /\ \A j \in 1..(i - 1) : s[j] # c) - 1
    ELSE -1

\* 0-based index of the last c in s, -1 when there is none
LastIndexByte(s, c) ==
    IF ContainsRune(s, c)
    THEN (CHOOSE i \in 1..Len(s) :
              s[i] = c /\ \A j \in (i + 1)..Len(s) : s[j] # c) - 1
    ELSE -1

RECURSIVE TrimLeft(_)
TrimLeft(s) == IF s # <<>> /\ IsSpace(Head(s)) THEN TrimLeft(Tail(s)) ELSE s

RECURSIVE TrimRight(_)
TrimRight(s) ==
    IF s # <<>> /\ IsSpace(s[Len(s)])
    THEN TrimRight(SubSeq(s, 1, Len(s) - 1))
    ELSE s

TrimSpace(s) == TrimRight(TrimLeft(s))

\* strings.Replace(s, "\r\n", "\n", -1)
RECURSIVE ReplaceCRLF(_)
ReplaceCRLF(s) ==
    IF s = <<>> THEN <<>>
    ELSE IF Len(s) >= 2 /\ s[1] = CR /\ s[2] = LF
         THEN <<LF>> \o ReplaceCRLF(SubSeq(s, 3, Len(s)))
         ELSE <<s[1]>> \o ReplaceCRLF(Tail(s))

Digits == <<"0", "1", "2", "3", "4", "5", "6", "7", "8", "9">>

IsDigit(c) == \E i \in 1..Len(Digits) : Digits[i] = c

DigitVal(c) == (CHOOSE i \in 1..Len(Digits) : Digits[i] = c) - 1

RECURSIVE StripZeros(_)
StripZeros(ds) ==
    IF ds # <<>> /\ Head(ds) = "0" THEN StripZeros(Tail(ds)) ELSE ds

\* a > b, for numerals without leading zeros
MagGreater(a, b) ==
    \/ Len(a) > Len(b)
    \/ /\ Len(a) = Len(b)
       /\ \E i \in 1..Len(a) :
              /\ DigitVal(a[i]) > DigitVal(b[i])
              /\ \A j \in 1..(i - 1) : a[j] = b[j]

\* the largest int and the magnitude of the smallest, for the width of int
MaxIntMag(size) ==
    IF size = 32
    THEN <<"2", "1", "4", "7", "4", "8", "3", "6", "4", "7">>
    ELSE <<"9", "2", "2", "3", "3", "7", "2", "0", "3", "6",
           "8", "5", "4", "7", "7", "5", "8", "0", "7">>

MinIntMag(size) ==
    IF size = 32
    THEN <<"2", "1", "4", "7", "4", "8", "3", "6", "4", "8">>
    ELSE <<"9", "2", "2", "3", "3", "7", "2", "0", "3", "6",
           "8", "5", "4", "7", "7", "5", "8", "0", "8">>

Zero == <<"0">>

\* strconv.Atoi: an optional sign and decimal digits.  A syntax error gives
\* 0; a value out of range gives the nearest int, and ErrRange.
Atoi(s, size) ==
    LET signed == s # <<>> /\ s[1] \in {"+", "-"}
        neg == s # <<>> /\ s[1] = "-"
        ds == IF signed THEN Tail(s) ELSE s
        sign == IF neg THEN <<"-">> ELSE <<>>
    IN  IF ds = <<>> \/ \E i \in 1..Len(ds) : ~IsDigit(ds[i])
        THEN [val |-> Zero, err |-> "ErrSyntax"]
        ELSE LET mag == StripZeros(ds)
                 lim == IF neg THEN MinIntMag(size) ELSE MaxIntMag(size)
             IN  IF MagGreater(mag, lim)
                 THEN [val |-> sign \o lim, err |-> "ErrRange"]
                 ELSE [val |-> IF mag = <<>> THEN Zero ELSE sign \o mag,
                       err |-> "nil"]

(***************************************************************************)
(* MockServer: every operation logs its name, then takes the head of Errs. *)
(* Each operator returns the server after the operation and its results.   *)
(***************************************************************************)
logMethod(s, name) == [s EXCEPT !.Trace = Append(@, name)]

getNextErrToReturn(s) ==
    IF Len(s.Errs) > 0
    THEN [s |-> [s EXCEPT !.Errs = Tail(@)], err |-> Head(s.Errs)]
    ELSE [s |-> s, err |-> nil]

Dial(s) ==
    Bind(getNextErrToReturn(logMethod(s, "Dial")), LAMBDA e :
    [s |-> e.s, err |-> e.err])

ReadStatus(s) ==
    Bind(getNextErrToReturn(logMethod(s, "ReadStatus")), LAMBDA e :
    IF e.err # nil THEN [s |-> e.s, err |-> e.err, status |-> ""]
    ELSE [s |-> e.s, err |-> nil, status |-> e.s.Status])

EOFError == [kind |-> "NetworkError", msg |-> "", cause |-> "EOF"]

ReadMessage(s) ==
    Bind(getNextErrToReturn(logMethod(s, "ReadMessage")), LAMBDA e :
    IF e.err # nil THEN [s |-> e.s, err |-> e.err, msg |-> <<>>]
    ELSE IF e.s.nextMsgIndex >= Len(e.s.Messages)
         THEN [s |-> e.s, err |-> EOFError, msg |-> <<>>]
         ELSE [s |-> [e.s EXCEPT !.nextMsgIndex = @ + 1], err |-> nil,
               msg |-> e.s.Messages[e.s.nextMsgIndex + 1]])

RECURSIVE Concat(_)
Concat(strs) == IF strs = <<>> THEN <<>> ELSE Head(strs) \o Concat(Tail(strs))

ReadUntilEof(s) ==
    Bind(getNextErrToReturn(logMethod(s, "ReadUntilEof")), LAMBDA e :
    IF e.err # nil THEN [s |-> e.s, err |-> e.err, data |-> <<>>]
    ELSE [s |-> [e.s EXCEPT !.nextMsgIndex =
                     IF @ < Len(e.s.Messages) THEN Len(e.s.Messages) ELSE @],
          err |-> nil,
          data |-> Concat(SubSeq(e.s.Messages, e.s.nextMsgIndex + 1,
                                 Len(e.s.Messages)))])

SendMessage(s, msg) ==
    Bind(getNextErrToReturn(logMethod(s, "SendMessage")), LAMBDA e :
    IF e.err # nil THEN [s |-> e.s, err |-> e.err]
    ELSE [s |-> [e.s EXCEPT !.Requests = Append(@, msg)], err |-> nil])

Close(s) ==
    Bind(getNextErrToReturn(logMethod(s, "Close")), LAMBDA e :
    [s |-> e.s, err |-> e.err])

(***************************************************************************)
(* wire.Conn over the MockServer (wire.NewConn(s, s)): each method of the  *)
(* connection is the server's.  The world w holds the server (w.s) and the *)
(* connections dialed (w.c); a connection is its index in w.c, 0 is nil.   *)
(***************************************************************************)
connSendMessage(w, conn, msg) ==
    Bind(SendMessage(w.s, msg), LAMBDA r :
    [w |-> [w EXCEPT !.s = r.s], err |-> r.err])

connReadStatus(w, conn) ==
    Bind(ReadStatus(w.s), LAMBDA r :
    [w |-> [w EXCEPT !.s = r.s], err |-> r.err])

connReadUntilEof(w, conn) ==
    Bind(ReadUntilEof(w.s), LAMBDA r :
    [w |-> [w EXCEPT !.s = r.s], err |-> r.err, data |-> r.data])

connClose(w, conn) ==
    Bind(Close(w.s), LAMBDA r :
    [w |-> [s |-> r.s, c |-> [w.c EXCEPT ![conn] = "closed"]], err |-> r.err])

\* conn.NewSyncConn(): the scanner and the sender of the connection make
\* their sync halves
connNewSyncConn(w, conn) ==
    [w EXCEPT !.s = logMethod(logMethod(@, "NewSyncScanner"), "NewSyncSender")]

\* errors.WrapErrf(err, "error connecting to device '%s'", descriptor)
WrapErrf(err, msg) == [kind |-> err.kind, msg |-> msg, cause |-> err]

(***************************************************************************)
(* The Device of the tests: AnyDevice() for the shell operations.          *)
(***************************************************************************)
HostColon == <<"h", "o", "s", "t", ":">>

TransportAny == <<"t", "r", "a", "n", "s", "p", "o", "r", "t", "-", "a", "n", "y">>

ShellColon == <<"s", "h", "e", "l", "l", ":">>

SyncColon == <<"s", "y", "n", "c", ":">>

\* A variant that returns the connection without reading the status.
dialDevice_NoStatus(w) ==
    Bind(Dial(w.s), LAMBDA d :
    IF d.err # nil THEN [w |-> [w EXCEPT !.s = d.s], conn |-> 0, err |-> d.err]
    ELSE
    Bind([s |-> d.s, c |-> Append(w.c, "open")], LAMBDA w1 :
    Bind(connSendMessage(w1, Len(w1.c), HostColon \o TransportAny), LAMBDA sm :
    IF sm.err # nil
    THEN [w |-> connClose(sm.w, Len(w1.c)).w, conn |-> 0,
          err |-> WrapErrf(sm.err, "error connecting to device '%s'")]
    ELSE [w |-> sm.w, conn |-> Len(w1.c), err |-> nil])))

\* Results: the world after, the connection (0 is nil) and the error.
dialDevice(w) ==
    Bind(Dial(w.s), LAMBDA d :
    IF d.err # nil THEN [w |-> [w EXCEPT !.s = d.s], conn |-> 0, err |-> d.err]
    ELSE
    Bind([s |-> d.s, c |-> Append(w.c, "open")], LAMBDA w1 :
    Bind(connSendMessage(w1, Len(w1.c), HostColon \o TransportAny), LAMBDA sm :
    IF sm.err # nil
    THEN [w |-> connClose(sm.w, Len(w1.c)).w, conn |-> 0,
          err |-> WrapErrf(sm.err, "error connecting to device '%s'")]
    ELSE
    Bind(connReadStatus(sm.w, Len(w1.c)), LAMBDA rs :
    IF rs.err # nil
    THEN [w |-> connClose(rs.w, Len(w1.c)).w, conn |-> 0, err |-> rs.err]
    ELSE [w |-> rs.w, conn |-> Len(w1.c), err |-> nil]))))

\* The function OpenCommand defers, run on the named results conn and err as
\* the return statement has set them.  Close on a nil *wire.Conn cannot reach
\* a connection: it panics or returns, as the wire package has it.
openCommandDeferred(w, conn, err, nilClose) ==
    IF err # nil
    THEN IF conn = 0
         THEN [w |-> w, panic |-> nilClose = "panic"]
         ELSE [w |-> connClose(w, conn).w, panic |-> FALSE]
    ELSE [w |-> w, panic |-> FALSE]

\* The return statements of OpenCommand after the defer statement: they set
\* the named results conn and err, then the deferred function runs.
openCommandReturn(w, conn, err, args, dialed, nilClose) ==
    Bind(openCommandDeferred(w, conn, err, nilClose), LAMBDA df :
    [w |-> df.w, conn |-> conn, err |-> err, args |-> args,
     dialed |-> dialed, panic |-> df.panic])

\* A variant that dials the device before it validates the command line.
OpenCommand_DialFirst(w, cmd, args, nilClose) ==
    Bind(dialDevice(w), LAMBDA d :
    Bind(prepareCommandLine(cmd, args), LAMBDA p :
    IF p.err # nil
    THEN [w |-> d.w, conn |-> 0, err |-> wrapClientError(p.err, "RunCommand"),
          args |-> p.args, dialed |-> 0, panic |-> FALSE]
    ELSE IF d.err # nil
    THEN [w |-> d.w, conn |-> 0, err |-> wrapClientError(d.err, "RunCommand"),
          args |-> p.args, dialed |-> 0, panic |-> FALSE]
    ELSE
    Bind(connSendMessage(d.w, d.conn, ShellColon \o p.out), LAMBDA sm :
    IF sm.err # nil
    THEN openCommandReturn(sm.w, 0, wrapClientError(sm.err, "Command"),
                           p.args, d.conn, nilClose)
    ELSE
    Bind(connReadStatus(sm.w, d.conn), LAMBDA rs :
    IF rs.err # nil
    THEN openCommandReturn(rs.w, 0, wrapClientError(rs.err, "Command"),
                           p.args, d.conn, nilClose)
    ELSE openCommandReturn(rs.w, d.conn, nil, p.args, d.conn, nilClose)))))

\* Results: the world after, the named results conn and err, the elements of
\* args as the call leaves them, the connection dialDevice returned (0 if
\* none), and whether the call panicked instead of returning.
OpenCommand(w, cmd, args, nilClose) ==
    Bind(prepareCommandLine(cmd, args), LAMBDA p :
    IF p.err # nil
    THEN [w |-> w, conn |-> 0, err |-> wrapClientError(p.err, "RunCommand"),
          args |-> p.args, dialed |-> 0, panic |-> FALSE]
    ELSE
    Bind(dialDevice(w), LAMBDA d :
    IF d.err # nil
    THEN [w |-> d.w, conn |-> 0, err |-> wrapClientError(d.err, "RunCommand"),
          args |-> p.args, dialed |-> 0, panic |-> FALSE]
    ELSE
    Bind(connSendMessage(d.w, d.conn, ShellColon \o p.out), LAMBDA sm :
    IF sm.err # nil
    THEN openCommandReturn(sm.w, 0, wrapClientError(sm.err, "Command"),
                           p.args, d.conn, nilClose)
    ELSE
    Bind(connReadStatus(sm.w, d.conn), LAMBDA rs :
    IF rs.err # nil
    THEN openCommandReturn(rs.w, 0, wrapClientError(rs.err, "Command"),
                           p.args, d.conn, nilClose)
    ELSE openCommandReturn(rs.w, d.conn, nil, p.args, d.conn, nilClose)))))

\* Results: the world after, the output and error returned, the elements of
\* args after the call, the connection dialed, panic.
commandOutput(w, cmd, args, nilClose) ==
    Bind(OpenCommand(w, cmd, args, nilClose), LAMBDA oc :
    IF oc.panic \/ oc.err # nil
    THEN [w |-> oc.w, out |-> <<>>, err |-> oc.err, args |-> oc.args,
          dialed |-> oc.dialed, panic |-> oc.panic]
    ELSE
    Bind(connReadUntilEof(oc.w, oc.conn), LAMBDA r :
    IF r.err # nil
    THEN [w |-> r.w, out |-> <<>>, err |-> wrapClientError(r.err, "RunCommand"),
          args |-> oc.args, dialed |-> oc.dialed, panic |-> FALSE]
    ELSE [w |-> r.w, out |-> r.data, err |-> nil, args |-> oc.args,
          dialed |-> oc.dialed, panic |-> FALSE]))

\* ";", "echo", ":$?"
ExitTokens == << <<";">>, <<"e", "c", "h", "o">>, <<COLON, "$", "?">> >>

\* append(args, ";", "echo", ":$?") on a slice with sl.spare free slots after
\* its elements: with room for the three tokens the result shares the array of
\* args, otherwise it is a new array (which, for slices this short, is grown
\* to leave fewer than three free slots).
appendExitTokens(sl) ==
    IF sl.spare >= Len(ExitTokens)
    THEN [elems |-> sl.elems \o ExitTokens, spare |-> sl.spare - Len(ExitTokens),
          shared |-> TRUE]
    ELSE [elems |-> sl.elems \o ExitTokens, spare |-> 0, shared |-> FALSE]

\* the elements of the slice sl after a callee was given exArgs, the result
\* of the append, and left its elements as after
elemsAfter(sl, exArgs, after) ==
    IF exArgs.shared THEN SubSeq(after, 1, Len(sl.elems)) ELSE sl.elems

ShellExitError(command, exitCode) ==
    [kind |-> "ShellExitError", Command |-> command, ExitCode |-> exitCode]

\* fmt.Errorf: an error that is no *errors.Err
Errorf(msg) == [kind |-> "untyped", msg |-> msg]

\* strconv.Atoi(strings.TrimSpace(outStr[idx+1:])), its error dropped
exitCodeAfter(outStr, idx, intSize) ==
    Atoi(TrimSpace(SubSeq(outStr, idx + 2, Len(outStr))), intSize).val

\* Results: the world after, the text and error returned, the elements of the
\* caller's slice after the call, the connection dialed, panic.
RunCommand(w, cmd, sl, bld) ==
    Bind(appendExitTokens(sl), LAMBDA exArgs :
    Bind(commandOutput(w, cmd, exArgs.elems, bld.nilClose), LAMBDA co :
    Bind(elemsAfter(sl, exArgs, co.args), LAMBDA args :
    IF co.panic \/ co.err # nil
    THEN [w |-> co.w, text |-> co.out, err |-> co.err, args |-> args,
          dialed |-> co.dialed, panic |-> co.panic]
    ELSE
    Bind(LastIndexByte(co.out, COLON), LAMBDA idx :
    IF idx = -1
    THEN [w |-> co.w, text |-> co.out,
          err |-> Errorf("adb shell error, parse exit code failed"),
          args |-> args, dialed |-> co.dialed, panic |-> FALSE]
    ELSE
    Bind(exitCodeAfter(co.out, idx, bld.intSize), LAMBDA exitCode :
    [w |-> co.w,
     text |-> ReplaceCRLF(SubSeq(co.out, 1, idx)),
     err |-> IF exitCode # Zero
             THEN ShellExitError(Join(args, <<SP>>), exitCode)
             ELSE nil,
     args |-> args, dialed |-> co.dialed, panic |-> FALSE])))))

\* Results as for RunCommand, and the exit code returned.
RunCommandWithExitCode(w, cmd, sl, bld) ==
    Bind(appendExitTokens(sl), LAMBDA exArgs :
    Bind(RunCommand(w, cmd, [elems |-> exArgs.elems, spare |-> exArgs.spare], bld),
         LAMBDA rc :
    Bind(elemsAfter(sl, exArgs, rc.args), LAMBDA args :
    IF rc.panic \/ rc.err # nil
    THEN [w |-> rc.w, text |-> rc.text, code |-> Zero, err |-> rc.err,
          args |-> args, dialed |-> rc.dialed, panic |-> rc.panic]
    ELSE
    Bind(LastIndexByte(rc.text, COLON), LAMBDA idx :
    IF idx = -1
    THEN [w |-> rc.w, text |-> rc.text, code |-> Zero,
          err |-> Errorf("adb shell aborted, can not parse exit code"),
          args |-> args, dialed |-> rc.dialed, panic |-> FALSE]
    ELSE
    Bind(exitCodeAfter(rc.text, idx, bld.intSize), LAMBDA exitCode :
    [w |-> rc.w,
     text |-> ReplaceCRLF(SubSeq(rc.text, 1, idx)),
     code |-> exitCode,
     err |-> IF exitCode # Zero
             THEN ShellExitError(Join(args, <<SP>>), exitCode)
             ELSE nil,
     args |-> args, dialed |-> rc.dialed, panic |-> FALSE])))))

\* Results: the world after, the connection and error returned, the
\* connection dialed.
getSyncConn(w) ==
    Bind(dialDevice(w), LAMBDA d :
    IF d.err # nil THEN [w |-> d.w, conn |-> 0, err |-> d.err, dialed |-> 0]
    ELSE
    Bind(connSendMessage(d.w, d.conn, SyncColon), LAMBDA sm :
    IF sm.err # nil
    THEN [w |-> sm.w, conn |-> 0, err |-> sm.err, dialed |-> d.conn]
    ELSE
    Bind(connReadStatus(sm.w, d.conn), LAMBDA rs :
    IF rs.err # nil
    THEN [w |-> rs.w, conn |-> 0, err |-> rs.err, dialed |-> d.conn]
    ELSE [w |-> connNewSyncConn(rs.w, d.conn), conn |-> d.conn, err |-> nil,
          dialed |-> d.conn])))

(***************************************************************************)
(* Inputs                                                                  *)
(***************************************************************************)
CmdPool == {<<>>, <<SP>>, <<SP, TAB>>, <<"c">>, <<"c", SP, "d">>, <<SP, "c">>}

ArgPool == {<<>>, <<"a">>, <<"a", SP, "b">>, <<TAB>>, <<"a", DQ>>, <<DQ, SP>>}

ArgLists == SeqsUpTo(ArgPool, MaxArgs)

\* the commands and arguments of the shell operations
ShellCmdPool == {<<SP>>, <<"c">>}

ShellArgPool == {<<"a">>, <<"a", SP, "b">>, <<"q", DQ>>}

\* the caller's slice: its elements and the free slots of its array after them
ShellArgSlices ==
    [elems : SeqsUpTo(ShellArgPool, MaxArgs), spare : {0, 3, 6}]

Nines == [i \in 1..20 |-> "9"]

\* what the shell writes until it closes the stream
OutputPool ==
    { <<>>,
      <<"o">>,
      <<"o", COLON, "0">>,
      <<"o", COLON, "1">>,
      <<"o", CR, LF, COLON, "0", CR, LF>>,
      <<"a", COLON, "b", CR, LF, COLON, "1", "2", CR, LF>>,
      <<"o", CR, LF, COLON, "0", CR, LF, COLON, "0", CR, LF>>,
      <<"o", CR, LF, COLON, "3", CR, LF, COLON, "0", CR, LF>>,
      <<"o", COLON, "x">>,
      <<"o", COLON>>,
      <<"o", COLON, "-", "1">>,
      <<"o", COLON, SP, "0", "0">>,
      <<"o", CR, COLON, "+", "7">>,
      <<"o", COLON>> \o Nines }

MessageLists ==
    {<<>>, << <<"o", CR>>, <<LF, COLON, "2">> >>} \cup {<<m>> : m \in OutputPool}

NetErr == [kind |-> "NetworkError", msg |-> "injected"]

\* Errs that let the first k operations pass and fail the next one
ErrLists == {<<>>} \cup {[i \in 1..k |-> nil] \o <<NetErr>> : k \in 0..MaxErrs}

(***************************************************************************)
(* The MockServer as constructed by a test.                                *)
(***************************************************************************)
NewMockServer(errs, msgs) ==
    [Errs |-> errs, Status |-> "OKAY", Messages |-> msgs, nextMsgIndex |-> 0,
     Requests |-> <<>>, Trace |-> <<>>]

NoCall == [op |-> "none"]

Builds == [intSize : {32, 64}, nilClose : {"panic", "return"}]

World == [s |-> server, c |-> conns]

(***************************************************************************)
(* Specification of the shell operations.  A behaviour is one test: a      *)
(* MockServer is constructed, and one operation of the Device is called.   *)
(***************************************************************************)
Init ==
    /\ server \in {NewMockServer(errs, msgs) : errs \in ErrLists, msgs \in MessageLists}
    /\ conns = <<>>
    /\ ret = NoCall
    /\ build \in Builds

CallOpenCommand ==
    /\ ret.op = "none"
    /\ \E cmd \in ShellCmdPool, sl \in ShellArgSlices :
           \E r \in {OpenCommand(World, cmd, sl.elems, build.nilClose)} :
           /\ server' = r.w.s
           /\ conns' = r.w.c
           /\ ret' = [op |-> "OpenCommand", cmd |-> cmd, args |-> sl.elems,
                      spare |-> sl.spare, pre |-> World,
                      conn |-> r.conn, err |-> r.err, argsAfter |-> r.args,
                      dialed |-> r.dialed, panic |-> r.panic]
    /\ UNCHANGED build

CallRunCommand ==
    /\ ret.op = "none"
    /\ \E cmd \in ShellCmdPool, sl \in ShellArgSlices :
           \E r \in {RunCommand(World, cmd, sl, build)} :
           /\ server' = r.w.s
           /\ conns' = r.w.c
           /\ ret' = [op |-> "RunCommand", cmd |-> cmd, args |-> sl.elems,
                      spare |-> sl.spare, pre |-> World,
                      text |-> r.text, err |-> r.err, argsAfter |-> r.args,
                      dialed |-> r.dialed, panic |-> r.panic]
    /\ UNCHANGED build

CallRunCommandWithExitCode ==
    /\ ret.op = "none"
    /\ \E cmd \in ShellCmdPool, sl \in ShellArgSlices :
           \E r \in {RunCommandWithExitCode(World, cmd, sl, build)} :
           /\ server' = r.w.s
           /\ conns' = r.w.c
           /\ ret' = [op |-> "RunCommandWithExitCode", cmd |-> cmd,
                      args |-> sl.elems, spare |-> sl.spare, pre |-> World,
                      text |-> r.text, code |-> r.code, err |-> r.err,
                      argsAfter |-> r.args, dialed |-> r.dialed,
                      panic |-> r.panic]
    /\ UNCHANGED build

CallGetSyncConn ==
    /\ ret.op = "none"
    /\ \E r \in {getSyncConn(World)} :
       /\ server' = r.w.s
       /\ conns' = r.w.c
       /\ ret' = [op |-> "getSyncConn", pre |-> World, conn |-> r.conn,
                  err |-> r.err, dialed |-> r.dialed, panic |-> FALSE]
    /\ UNCHANGED build

Next ==
    \/ CallOpenCommand
    \/ CallRunCommand
    \/ CallRunCommandWithExitCode
    \/ CallGetSyncConn

Spec == Init /\ [][Next]_vars

(***************************************************************************)
(* Specification of prepareCommandLine alone: the initial states hold the  *)
(* inputs of a call, CallPrepareCommandLine makes the call.                *)
(***************************************************************************)
InitCmd ==
    /\ server = NewMockServer(<<>>, <<>>)
    /\ conns = <<>>
    /\ build \in Builds
    /\ \E cmd \in CmdPool, args \in ArgLists :
           ret = [op |-> "input", cmd |-> cmd, args |-> args]

CallPrepareCommandLine ==
    /\ ret.op = "input"
    /\ \E r \in {prepareCommandLine(ret.cmd, ret.args)} :
       ret' = [op |-> "prepareCommandLine", cmd |-> ret.cmd, args |-> ret.args,
               out |-> r.out, err |-> r.err, argsAfter |-> r.args]
    /\ UNCHANGED <<server, conns, build>>

NextCmd == CallPrepareCommandLine

SpecCmd == InitCmd /\ [][NextCmd]_vars

(***************************************************************************)
(* Forwarding: the Go library (strings.Fields, strings.Split), the round   *)
(* trip of a host request, and ForwardList.                                *)
(***************************************************************************)
\* strings.Fields from position i on, cur the field being read
RECURSIVE fieldsFrom(_, _, _)
fieldsFrom(s, i, cur) ==
    IF i > Len(s) THEN (IF cur = <<>> THEN <<>> ELSE <<cur>>)
    ELSE IF IsSpace(s[i])
         THEN (IF cur = <<>> THEN <<>> ELSE <<cur>>) \o fieldsFrom(s, i + 1, <<>>)
         ELSE fieldsFrom(s, i + 1, Append(cur, s[i]))

Fields(s) == fieldsFrom(s, 1, <<>>)

\* strings.Split at the character c, from position i on
RECURSIVE splitFrom(_, _, _, _)
splitFrom(s, c, i, cur) ==
    IF i > Len(s) THEN <<cur>>
    ELSE IF s[i] = c
         THEN <<cur>> \o splitFrom(s, c, i + 1, <<>>)
         ELSE splitFrom(s, c, i + 1, Append(cur, s[i]))

Split(s, c) == splitFrom(s, c, 1, <<>>)

ZeroForwardSpec == [Protocol |-> <<>>, PortOrName |-> <<>>]

\* ForwardSpec.String
String(f) == f.Protocol \o <<COLON>> \o f.PortOrName

\* A variant of parseString that takes the fields in the other order.
parseString_Swapped(f, s) ==
    Bind(Split(s, COLON), LAMBDA fields :
    IF Len(fields) # 2
    THEN [spec |-> f,
          err |-> [kind |-> "untyped",
                   msg |-> "expect string contains only one ':', str = %s",
                   str |-> s]]
    ELSE [spec |-> [Protocol |-> fields[2], PortOrName |-> fields[1]],
          err |-> nil])

\* ForwardSpec.parseString on the ForwardSpec f: the spec after, the error
parseString(f, s) ==
    Bind(Split(s, COLON), LAMBDA fields :
    IF Len(fields) # 2
    THEN [spec |-> f,
          err |-> [kind |-> "untyped",
                   msg |-> "expect string contains only one ':', str = %s",
                   str |-> s]]
    ELSE [spec |-> [Protocol |-> fields[1], PortOrName |-> fields[2]],
          err |-> nil])

connReadMessage(w, conn) ==
    Bind(ReadMessage(w.s), LAMBDA r :
    [w |-> [w EXCEPT !.s = r.s], err |-> r.err, msg |-> r.msg])

\* Dial, send the request, read the status and one message, and close the
\* connection on every path that dialed one.
roundTripSingleResponse(w, req) ==
    Bind(Dial(w.s), LAMBDA d :
    IF d.err # nil THEN [w |-> [w EXCEPT !.s = d.s], resp |-> <<>>, err |-> d.err]
    ELSE
    Bind([s |-> d.s, c |-> Append(w.c, "open")], LAMBDA w1 :
    Bind(connSendMessage(w1, Len(w1.c), req), LAMBDA sm :
    IF sm.err # nil
    THEN [w |-> connClose(sm.w, Len(w1.c)).w, resp |-> <<>>, err |-> sm.err]
    ELSE
    Bind(connReadStatus(sm.w, Len(w1.c)), LAMBDA rs :
    IF rs.err # nil
    THEN [w |-> connClose(rs.w, Len(w1.c)).w, resp |-> <<>>, err |-> rs.err]
    ELSE
    Bind(connReadMessage(rs.w, Len(w1.c)), LAMBDA rm :
    [w |-> connClose(rm.w, Len(w1.c)).w, resp |-> rm.msg, err |-> rm.err])))))

HostSerialColon == <<"h", "o", "s", "t", "-", "s", "e", "r", "i", "a", "l", COLON>>

\* DeviceDescriptor.getHostPrefix
getHostPrefix(descriptor) ==
    IF descriptor.kind = "serial" THEN HostSerialColon \o descriptor.serial
    ELSE <<"h", "o", "s", "t">>

GetSerialno == <<"g", "e", "t", "-", "s", "e", "r", "i", "a", "l", "n", "o">>

ListForward == <<"l", "i", "s", "t", "-", "f", "o", "r", "w", "a", "r", "d">>

getAttribute(w, descriptor, attr) ==
    Bind(roundTripSingleResponse(w, getHostPrefix(descriptor) \o <<COLON>> \o attr),
         LAMBDA r :
    IF r.err # nil THEN [w |-> r.w, attr |-> <<>>, err |-> r.err]
    ELSE [w |-> r.w, attr |-> r.resp, err |-> nil])

Serial(w, descriptor) ==
    Bind(getAttribute(w, descriptor, GetSerialno), LAMBDA a :
    [w |-> a.w, attr |-> a.attr, err |-> wrapClientError(a.err, "Serial")])

\* A variant of the loop that keeps the rows of every serial.
RECURSIVE forwardRows_AllSerials(_, _, _, _)
forwardRows_AllSerials(fields, devSerial, i, fs) ==
    IF i >= Len(fields) \div 3 THEN [fs |-> fs, err |-> nil]
    ELSE
    Bind(parseString(ZeroForwardSpec, fields[i * 3 + 2]), LAMBDA local :
    IF local.err # nil THEN [fs |-> <<>>, err |-> local.err]
    ELSE
    Bind(parseString(ZeroForwardSpec, fields[i * 3 + 3]), LAMBDA remote :
    IF remote.err # nil THEN [fs |-> <<>>, err |-> remote.err]
    ELSE forwardRows_AllSerials(fields, devSerial, i + 1,
                                Append(fs, [Serial |-> fields[i * 3 + 1],
                                            Local |-> local.spec,
                                            Remote |-> remote.spec]))))

\* The loop of ForwardList over the rows, from (0-based) row i on.
RECURSIVE forwardRows(_, _, _, _)
forwardRows(fields, devSerial, i, fs) ==
    IF i >= Len(fields) \div 3 THEN [fs |-> fs, err |-> nil]
    ELSE IF fields[i * 3 + 1] # devSerial
         THEN forwardRows(fields, devSerial, i + 1, fs)
         ELSE
         Bind(parseString(ZeroForwardSpec, fields[i * 3 + 2]), LAMBDA local :
         IF local.err # nil THEN [fs |-> <<>>, err |-> local.err]
         ELSE
         Bind(parseString(ZeroForwardSpec, fields[i * 3 + 3]), LAMBDA remote :
         IF remote.err # nil THEN [fs |-> <<>>, err |-> remote.err]
         ELSE forwardRows(fields, devSerial, i + 1,
                          Append(fs, [Serial |-> fields[i * 3 + 1],
                                      Local |-> local.spec,
                                      Remote |-> remote.spec]))))

\* A variant that asks for the forwarding list before it asks for the serial.
ForwardList_ListFirst(w, descriptor) ==
    Bind(getAttribute(w, descriptor, ListForward), LAMBDA lf :
    IF lf.err # nil
    THEN [w |-> lf.w, fs |-> <<>>, fsNil |-> TRUE, err |-> lf.err]
    ELSE
    Bind(Serial(lf.w, descriptor), LAMBDA sr :
    IF sr.err # nil
    THEN [w |-> sr.w, fs |-> <<>>, fsNil |-> TRUE, err |-> sr.err]
    ELSE
    Bind(Fields(lf.attr), LAMBDA fields :
    IF Len(fields) % 3 # 0
    THEN [w |-> sr.w, fs |-> <<>>, fsNil |-> TRUE,
          err |-> Errorf("list forward parse error")]
    ELSE
    Bind(forwardRows(fields, sr.attr, 0, <<>>), LAMBDA rows :
    [w |-> sr.w, fs |-> rows.fs, fsNil |-> rows.err # nil, err |-> rows.err]))))

\* Results: the world after, the pairs (fs, and whether the slice is nil) and
\* the error.
ForwardList(w, descriptor) ==
    Bind(Serial(w, descriptor), LAMBDA sr :
    IF sr.err # nil
    THEN [w |-> sr.w, fs |-> <<>>, fsNil |-> TRUE, err |-> sr.err]
    ELSE
    Bind(getAttribute(sr.w, descriptor, ListForward), LAMBDA lf :
    IF lf.err # nil
    THEN [w |-> lf.w, fs |-> <<>>, fsNil |-> TRUE, err |-> lf.err]
    ELSE
    Bind(Fields(lf.attr), LAMBDA fields :
    IF Len(fields) % 3 # 0
    THEN [w |-> lf.w, fs |-> <<>>, fsNil |-> TRUE,
          err |-> Errorf("list forward parse error")]
    ELSE
    Bind(forwardRows(fields, sr.attr, 0, <<>>), LAMBDA rows :
    [w |-> lf.w, fs |-> rows.fs, fsNil |-> rows.err # nil, err |-> rows.err]))))

(***************************************************************************)
(* Specification of the forwarding list.  The server answers get-serialno  *)
(* with the serial of the device and list-forward with rows of three       *)
(* fields for this and for another device.                                 *)
(***************************************************************************)
OwnSerial == <<"s", "1">>

OtherSerial == <<"s", "2">>

Row(serial, local, remote) == [serial |-> serial, local |-> local, remote |-> remote]

\* rows as the server writes them: of this device and of the other one, and
\* rows whose local or remote field is not protocol:value
RowPool ==
    { Row(OwnSerial, <<"t", COLON, "1">>, <<"u", COLON, "d">>),
      Row(OwnSerial, <<"t", COLON, "2">>, <<"l", COLON, "n">>),
      Row(OwnSerial, <<"t", "1">>, <<"u", COLON, "d">>),
      Row(OwnSerial, <<"t", COLON, "1">>, <<"a", COLON, "b", COLON, "c">>),
      Row(OtherSerial, <<"t", COLON, "3">>, <<"u", COLON, "e">>),
      Row(OtherSerial, <<"t", "3">>, <<"u", COLON, "e">>) }

\* three fields, a space between them
RowText(row) == row.serial \o <<SP>> \o row.local \o <<SP>> \o row.remote

\* what follows the last row: nothing, a newline, or a field of a cut row
TrailerPool == {<<>>, <<LF>>, <<SP>> \o OtherSerial}

RowSeps == {<<LF>>, <<CR, LF>>}

FwdResponses ==
    {Join([i \in 1..Len(rows) |-> RowText(rows[i])], sep) \o tr :
        rows \in SeqsUpTo(RowPool, MaxRows), sep \in RowSeps, tr \in TrailerPool}

DeviceWithSerial(serial) == [kind |-> "serial", serial |-> serial]

InitFwd ==
    /\ server \in {NewMockServer(errs, <<OwnSerial, resp>>) :
                      errs \in ErrLists, resp \in FwdResponses}
    /\ conns = <<>>
    /\ ret = [op |-> "device", descriptor |-> DeviceWithSerial(OwnSerial)]
    /\ build = [intSize |-> 64, nilClose |-> "panic"]

CallForwardList ==
    /\ ret.op = "device"
    /\ \E r \in {ForwardList(World, ret.descriptor)} :
       /\ server' = r.w.s
       /\ conns' = r.w.c
       /\ ret' = [op |-> "ForwardList", descriptor |-> ret.descriptor,
                  pre |-> World, fs |-> r.fs, fsNil |-> r.fsNil,
                  err |-> r.err]
    /\ UNCHANGED build

CallSerial ==
    /\ ret.op = "device"
    /\ \E r \in {Serial(World, ret.descriptor)} :
       /\ server' = r.w.s
       /\ conns' = r.w.c
       /\ ret' = [op |-> "Serial", descriptor |-> ret.descriptor,
                  pre |-> World, attr |-> r.attr, err |-> r.err]
    /\ UNCHANGED build

NextFwd ==
    \/ CallForwardList
    \/ CallSerial

SpecFwd == InitFwd /\ [][NextFwd]_vars

(***************************************************************************)
(* Host-scoped operations: the attributes and their parsing, and the       *)
(* forwarding requests that have no response.                              *)
(***************************************************************************)
\* Dial, send the request and read the status, and close the connection on
\* every path that dialed one.
roundTripSingleNoResponse(w, req) ==
    Bind(Dial(w.s), LAMBDA d :
    IF d.err # nil THEN [w |-> [w EXCEPT !.s = d.s], err |-> d.err]
    ELSE
    Bind([s |-> d.s, c |-> Append(w.c, "open")], LAMBDA w1 :
    Bind(connSendMessage(w1, Len(w1.c), req), LAMBDA sm :
    IF sm.err # nil
    THEN [w |-> connClose(sm.w, Len(w1.c)).w, err |-> sm.err]
    ELSE
    Bind(connReadStatus(sm.w, Len(w1.c)), LAMBDA rs :
    [w |-> connClose(rs.w, Len(w1.c)).w, err |-> rs.err]))))

KillforwardColon == <<"k", "i", "l", "l", "f", "o", "r", "w", "a", "r", "d", COLON>>

KillforwardAll == <<"k", "i", "l", "l", "f", "o", "r", "w", "a", "r", "d", "-", "a", "l", "l">>

ForwardColon == <<"f", "o", "r", "w", "a", "r", "d", COLON>>

ForwardRemove(w, descriptor, local) ==
    Bind(roundTripSingleNoResponse(w,
             getHostPrefix(descriptor) \o <<COLON>> \o KillforwardColon \o String(local)),
         LAMBDA r :
    [w |-> r.w, err |-> wrapClientError(r.err, "ForwardRemove")])

\* A variant that sends nothing when the server has had the request before.
ForwardRemoveAll_OnceOnly(w, descriptor) ==
    IF \E i \in 1..Len(w.s.Requests) :
           w.s.Requests[i] = getHostPrefix(descriptor) \o <<COLON>> \o KillforwardAll
    THEN [w |-> w, err |-> wrapClientError(Errorf("no forwards"), "ForwardRemoveAll")]
    ELSE
    Bind(roundTripSingleNoResponse(w,
             getHostPrefix(descriptor) \o <<COLON>> \o KillforwardAll),
         LAMBDA r :
    [w |-> r.w, err |-> wrapClientError(r.err, "ForwardRemoveAll")])

ForwardRemoveAll(w, descriptor) ==
    Bind(roundTripSingleNoResponse(w,
             getHostPrefix(descriptor) \o <<COLON>> \o KillforwardAll),
         LAMBDA r :
    [w |-> r.w, err |-> wrapClientError(r.err, "ForwardRemoveAll")])

\* A variant that sends the remote spec before the local one.
Forward_RemoteFirst(w, descriptor, local, remote) ==
    Bind(roundTripSingleNoResponse(w,
             getHostPrefix(descriptor) \o <<COLON>> \o ForwardColon
                 \o String(remote) \o <<";">> \o String(local)),
         LAMBDA r :
    [w |-> r.w, err |-> wrapClientError(r.err, "Forward")])

Forward(w, descriptor, local, remote) ==
    Bind(roundTripSingleNoResponse(w,
             getHostPrefix(descriptor) \o <<COLON>> \o ForwardColon
                 \o String(local) \o <<";">> \o String(remote)),
         LAMBDA r :
    [w |-> r.w, err |-> wrapClientError(r.err, "Forward")])

GetDevpath == <<"g", "e", "t", "-", "d", "e", "v", "p", "a", "t", "h">>

GetState == <<"g", "e", "t", "-", "s", "t", "a", "t", "e">>

DevicePath(w, descriptor) ==
    Bind(getAttribute(w, descriptor, GetDevpath), LAMBDA a :
    [w |-> a.w, attr |-> a.attr, err |-> wrapClientError(a.err, "DevicePath")])

StateDevice == <<"d", "e", "v", "i", "c", "e">>

StateOffline == <<"o", "f", "f", "l", "i", "n", "e">>

\* parseDeviceState: the state a string names, a ParseError for a string that
\* names none.  emptyState says whether "" names a state.
parseDeviceState(str, emptyState) ==
    IF str = StateDevice THEN [state |-> "StateOnline", err |-> nil]
    ELSE IF str = StateOffline THEN [state |-> "StateOffline", err |-> nil]
    ELSE IF str = <<>> /\ emptyState = "recognized"
         THEN [state |-> "StateDisconnected", err |-> nil]
         ELSE [state |-> "StateInvalid",
               err |-> [kind |-> "ParseError", msg |-> "invalid device state: %q"]]

\* Results: the world after, the state and the error; attrErr is the error of
\* getAttribute, which the second := assigns over.
State(w, descriptor, emptyState) ==
    Bind(getAttribute(w, descriptor, GetState), LAMBDA a :
    Bind(parseDeviceState(a.attr, emptyState), LAMBDA p :
    [w |-> a.w, state |-> p.state, err |-> wrapClientError(p.err, "State"),
     attrErr |-> a.err]))

(***************************************************************************)
(* Specification of the host-scoped operations.  A behaviour is a test     *)
(* that makes up to MaxCalls calls on one Device and one MockServer.       *)
(***************************************************************************)
AnyDevice == [kind |-> "any"]

Descriptors == {AnyDevice, DeviceWithSerial(OwnSerial)}

HostMessageLists ==
    {<<>>, << <<>> >>, <<StateDevice>>, <<StateOffline, <<"x">>, <<>> >>}

HostSpecPool ==
    { [Protocol |-> <<"t">>, PortOrName |-> <<"8", "9">>],
      [Protocol |-> <<"l">>, PortOrName |-> <<"d">>] }

AttrPool == {GetSerialno, <<"a">>}

HostBuilds == [intSize : {64}, nilClose : {"panic"},
               emptyState : {"recognized", "unrecognized"}]

InitHost ==
    /\ server \in {NewMockServer(errs, msgs) :
                      errs \in ErrLists, msgs \in HostMessageLists}
    /\ conns = <<>>
    /\ build \in HostBuilds
    /\ \E d \in Descriptors : ret = [op |-> "device", descriptor |-> d, calls |-> 0]

\* the part of ret that every call of the test records
HostCall(op, r) ==
    [op |-> op, descriptor |-> ret.descriptor, calls |-> ret.calls + 1,
     prev |-> ret, pre |-> World, err |-> r.err]

CallGetAttribute ==
    /\ ret.calls < MaxCalls
    /\ \E attr \in AttrPool :
       \E r \in {getAttribute(World, ret.descriptor, attr)} :
       /\ server' = r.w.s
       /\ conns' = r.w.c
       /\ ret' = [name |-> attr, attr |-> r.attr] @@ HostCall("getAttribute", r)
    /\ UNCHANGED build

CallForward ==
    /\ ret.calls < MaxCalls
    /\ \E local \in HostSpecPool, remote \in HostSpecPool :
       \E r \in {Forward(World, ret.descriptor, local, remote)} :
       /\ server' = r.w.s
       /\ conns' = r.w.c
       /\ ret' = [local |-> local, remote |-> remote] @@ HostCall("Forward", r)
    /\ UNCHANGED build

CallForwardRemove ==
    /\ ret.calls < MaxCalls
    /\ \E local \in HostSpecPool :
       \E r \in {ForwardRemove(World, ret.descriptor, local)} :
       /\ server' = r.w.s
       /\ conns' = r.w.c
       /\ ret' = [local |-> local] @@ HostCall("ForwardRemove", r)
    /\ UNCHANGED build

CallForwardRemoveAll ==
    /\ ret.calls < MaxCalls
    /\ \E r \in {ForwardRemoveAll(World, ret.descriptor)} :
       /\ server' = r.w.s
       /\ conns' = r.w.c
       /\ ret' = HostCall("ForwardRemoveAll", r)
    /\ UNCHANGED build

CallHostSerial ==
    /\ ret.calls < MaxCalls
    /\ \E r \in {Serial(World, ret.descriptor)} :
       /\ server' = r.w.s
       /\ conns' = r.w.c
       /\ ret' = [attr |-> r.attr] @@ HostCall("Serial", r)
    /\ UNCHANGED build

CallDevicePath ==
    /\ ret.calls < MaxCalls
    /\ \E r \in {DevicePath(World, ret.descriptor)} :
       /\ server' = r.w.s
       /\ conns' = r.w.c
       /\ ret' = [attr |-> r.attr] @@ HostCall("DevicePath", r)
    /\ UNCHANGED build

CallState ==
    /\ ret.calls < MaxCalls
    /\ \E r \in {State(World, ret.descriptor, build.emptyState)} :
       /\ server' = r.w.s
       /\ conns' = r.w.c
       /\ ret' = [state |-> r.state, attrErr |-> r.attrErr] @@ HostCall("State", r)
    /\ UNCHANGED build

NextHost ==
    \/ CallGetAttribute
    \/ CallForward
    \/ CallForwardRemove
    \/ CallForwardRemoveAll
    \/ CallHostSerial
    \/ CallDevicePath
    \/ CallState

SpecHost == InitHost /\ [][NextHost]_vars

(***************************************************************************)
(* DeviceInfo, and its specification: the test injects a device lister,    *)
(* the server answers get-serialno with the serial the Device was made of. *)
(***************************************************************************)
\* "device list doesn't contain serial "
NoSerialText ==
    <<"d", "e", "v", "i", "c", "e", " ", "l", "i", "s", "t", " ", "d", "o", "e", "s", "n", "'", "t", " ",
       "c", "o", "n", "t", "a", "i", "n", " ",
       "s", "e", "r", "i", "a", "l", " ">>

\* errors.Errorf(errors.DeviceNotFound, "device list doesn't contain serial
\* %s", serial)
DeviceNotFound(serial) == [kind |-> "DeviceNotFound", msg |-> NoSerialText \o serial]

\* the index of the last element of devices with the serial, 0 if none
findDevice_Last(devices, serial, i) ==
    LET m == {j \in i..Len(devices) : devices[j].Serial = serial}
    IN  IF m = {} THEN 0 ELSE CHOOSE j \in m : \A k \in m : k <= j

\* the index of the first element of devices with the serial, 0 if none
RECURSIVE findDevice(_, _, _)
findDevice(devices, serial, i) ==
    IF i > Len(devices) THEN 0
    ELSE IF devices[i].Serial = serial THEN i
    ELSE findDevice(devices, serial, i + 1)

\* deviceListFunc is the injected lister: what it returns.  Results: the world
\* after, the DeviceInfo returned (found is its index in the list, 0 for a nil
\* pointer) and the error.
DeviceInfo(w, descriptor, deviceListFunc) ==
    Bind(Serial(w, descriptor), LAMBDA sr :
    IF sr.err # nil
    THEN [w |-> sr.w, found |-> 0,
          err |-> wrapClientError(sr.err, "GetDeviceInfo(GetSerial)")]
    ELSE IF deviceListFunc.err # nil
    THEN [w |-> sr.w, found |-> 0,
          err |-> wrapClientError(deviceListFunc.err, "DeviceInfo(ListDevices)")]
    ELSE
    Bind(findDevice(deviceListFunc.devices, sr.attr, 1), LAMBDA i :
    IF i # 0 THEN [w |-> sr.w, found |-> i, err |-> nil]
    ELSE [w |-> sr.w, found |-> 0,
          err |-> wrapClientError(DeviceNotFound(sr.attr), "DeviceInfo")]))

SerialPool == {OwnSerial, OtherSerial, <<"s", "e", "r", "i", "a", "l">>}

InfoPool ==
    { [Serial |-> OwnSerial, Product |-> "Foo"],
      [Serial |-> OwnSerial, Product |-> "Baz"],
      [Serial |-> OtherSerial, Product |-> "Bar"] }

Listers ==
    {[devices |-> ds, err |-> nil] : ds \in SeqsUpTo(InfoPool, MaxDevices)}
        \cup {[devices |-> <<>>, err |-> NetErr]}

InitInfo ==
    /\ \E serial \in SerialPool, lister \in Listers :
           /\ server \in {NewMockServer(errs, <<serial>>) : errs \in ErrLists}
           /\ ret = [op |-> "device", descriptor |-> DeviceWithSerial(serial),
                     deviceListFunc |-> lister]
    /\ conns = <<>>
    /\ build = [intSize |-> 64, nilClose |-> "panic"]

CallDeviceInfo ==
    /\ ret.op = "device"
    /\ \E r \in {DeviceInfo(World, ret.descriptor, ret.deviceListFunc)} :
       /\ server' = r.w.s
       /\ conns' = r.w.c
       /\ ret' = [op |-> "DeviceInfo", descriptor |-> ret.descriptor,
                  deviceListFunc |-> ret.deviceListFunc, pre |-> World,
                  found |-> r.found, err |-> r.err]
    /\ UNCHANGED build

NextInfo == CallDeviceInfo

SpecInfo == InitInfo /\ [][NextInfo]_vars

(***************************************************************************)
(* Properties.  The expression \[(.*?)\]:\s*\[(.*?)\] is matched as the    *)
(* regexp package matches it: leftmost, the lazy groups as short as they   *)
(* can be, `.` any character but a line feed.                              *)
(***************************************************************************)
Getprop == <<"g", "e", "t", "p", "r", "o", "p">>

\* \s*: the first index from i on that holds no white space
RECURSIVE skipSpace(_, _)
skipSpace(s, i) ==
    IF i <= Len(s) /\ IsSpace(s[i]) THEN skipSpace(s, i + 1) ELSE i

\* (.*?)\]: the index of the first "]" from j on, 0 if a line feed or the end
\* of s comes first
RECURSIVE valueEnd(_, _)
valueEnd(s, j) ==
    IF j > Len(s) \/ s[j] = LF THEN 0
    ELSE IF s[j] = "]" THEN j
    ELSE valueEnd(s, j + 1)

\* \]:\s*\[(.*?)\] at ke: where the value begins and ends, end 0 for no match
restAt(s, ke) ==
    IF ke + 1 > Len(s) \/ s[ke] # "]" \/ s[ke + 1] # COLON
    THEN [begin |-> 0, end |-> 0]
    ELSE Bind(skipSpace(s, ke + 2), LAMBDA q :
         IF q > Len(s) \/ s[q] # "[" THEN [begin |-> 0, end |-> 0]
         ELSE [begin |-> q + 1, end |-> valueEnd(s, q + 1)])

\* the key group grows from p + 1 to ke - 1 until the rest matches
RECURSIVE keyEnd(_, _)
keyEnd(s, ke) ==
    IF ke > Len(s) THEN 0
    ELSE IF restAt(s, ke).end # 0 THEN ke
    ELSE IF s[ke] = LF THEN 0
    ELSE keyEnd(s, ke + 1)

\* the match that begins at p
matchAt(s, p) ==
    IF s[p] # "[" THEN [ok |-> FALSE]
    ELSE Bind(keyEnd(s, p + 1), LAMBDA ke :
         IF ke = 0 THEN [ok |-> FALSE]
         ELSE Bind(restAt(s, ke), LAMBDA r :
              [ok |-> TRUE, key |-> SubSeq(s, p + 1, ke - 1),
               val |-> SubSeq(s, r.begin, r.end - 1), end |-> r.end]))

\* re.FindAllStringSubmatch(s, -1), from p on: groups 1 and 2 of each match
RECURSIVE FindAllStringSubmatch(_, _)
FindAllStringSubmatch(s, p) ==
    IF p > Len(s) THEN <<>>
    ELSE Bind(matchAt(s, p), LAMBDA m :
         IF m.ok
         THEN <<[key |-> m.key, val |-> m.val]>> \o FindAllStringSubmatch(s, m.end + 1)
         ELSE FindAllStringSubmatch(s, p + 1))

\* props[key] = val for the matches in order: the last value of a key stays
propsOf(matches) ==
    [k \in {matches[i].key : i \in 1..Len(matches)} |->
        matches[CHOOSE i \in 1..Len(matches) :
                    /\ matches[i].key = k
                    /\ \A j \in (i + 1)..Len(matches) : matches[j].key # k].val]

\* The package has two definitions of Properties; bld.properties is the file
\* whose definition is built.  Results: the world after, the map (isNil for
\* a nil map) and the error, panic.
Properties(w, bld) ==
    Bind(IF bld.properties = "device.go"
         THEN Bind(commandOutput(w, Getprop, <<>>, bld.nilClose), LAMBDA co :
              [w |-> co.w, propOutput |-> co.out, err |-> co.err, panic |-> co.panic])
         ELSE Bind(RunCommand(w, Getprop, [elems |-> <<>>, spare |-> 0], bld), LAMBDA rc :
              [w |-> rc.w, propOutput |-> rc.text, err |-> rc.err, panic |-> rc.panic]),
         LAMBDA o :
    IF o.panic \/ o.err # nil
    THEN [w |-> o.w, props |-> <<>>, isNil |-> TRUE, err |-> o.err, panic |-> o.panic]
    ELSE [w |-> o.w, props |-> propsOf(FindAllStringSubmatch(o.propOutput, 1)),
          isNil |-> FALSE, err |-> nil, panic |-> FALSE])

\* the output of TestProperties
TestPropOutput ==
    <<"[", "w", "i", "f", "i", ".", "i", "n", "t", "e", "r", "f", "a", "c",
       "e", "]", COLON, SP, "[", "w", "l", "a", "n", "0", "]", CR, LF>>
        \o <<"[", "w", "l", "a", "n", ".", "d", "r", "i", "v", "e", "r", ".",
           "a", "t", "h", "]", COLON, SP, "[", "0", "]", CR, LF>>

PropLinePool ==
    { <<"[", "a", "]", COLON, SP, "[", "w", "]", CR, LF>>,
      <<"[", "b", "]", COLON, "[", "0", "]", LF>>,
      <<"[", "a", "]", COLON, SP, "[", "x", "]", CR, LF>>,
      <<"[", "c", "]", SP, "[", "y", "]", LF>> }

\* what echo :$? adds to the output of a shell command, if it is there
PropTrailers == {<<>>, <<COLON, "0", CR, LF>>}

PropOutputs ==
    {TestPropOutput \o t : t \in PropTrailers}
        \cup {Concat(ls) \o t : ls \in SeqsUpTo(PropLinePool, MaxLines), t \in PropTrailers}

PropBuilds ==
    [intSize : {64}, nilClose : {"panic"}, properties : {"device.go", "device_extra.go"}]

InitProp ==
    /\ server \in {NewMockServer(errs, <<out>>) : errs \in ErrLists, out \in PropOutputs}
    /\ conns = <<>>
    /\ ret = NoCall
    /\ build \in PropBuilds

CallProperties ==
    /\ ret.op = "none"
    /\ \E r \in {Properties(World, build)} :
       /\ server' = r.w.s
       /\ conns' = r.w.c
       /\ ret' = [op |-> "Properties", pre |-> World, props |-> r.props,
                  isNil |-> r.isNil, err |-> r.err, panic |-> r.panic]
    /\ UNCHANGED build

NextProp == CallProperties

SpecProp == InitProp /\ [][NextProp]_vars

(***************************************************************************)
(* Specification of the MockServer alone: a test performs up to MaxOps of  *)
(* its operations, in any order, on a server with any queue of errors.     *)
(***************************************************************************)
Start(s) == [s |-> logMethod(s, "Start"), err |-> nil]

\* Read and Write return len(p) with a nil error
Read(s) ==
    Bind(getNextErrToReturn(logMethod(s, "Read")), LAMBDA e :
    IF e.err # nil THEN [s |-> e.s, err |-> e.err]
    ELSE IF e.s.nextMsgIndex >= Len(e.s.Messages)
         THEN [s |-> e.s, err |-> EOFError]
         ELSE [s |-> [e.s EXCEPT !.nextMsgIndex = @ + 1], err |-> nil])

Write(s) ==
    Bind(getNextErrToReturn(logMethod(s, "Write")), LAMBDA e :
    [s |-> e.s, err |-> e.err])

\* NewSyncScanner and NewSyncSender return no error: err is nil
NewSyncScanner(s) == [s |-> logMethod(s, "NewSyncScanner"), err |-> nil]

NewSyncSender(s) == [s |-> logMethod(s, "NewSyncSender"), err |-> nil]

ErrQueues == SeqsUpTo({nil, NetErr}, MaxQueue)

InitMock ==
    /\ server \in {NewMockServer(errs, msgs) :
                       errs \in ErrQueues, msgs \in {<<>>, << <<"a">>, <<"b">> >>}}
    /\ conns = <<>>
    /\ ret = NoCall
    /\ build = [intSize |-> 64, nilClose |-> "panic"]

MockDial ==
    /\ Len(server.Trace) < MaxOps
    /\ \E r \in {Dial(server)} :
       /\ server' = r.s
       /\ ret' = [op |-> "Dial", pre |-> World, err |-> r.err]
    /\ UNCHANGED <<conns, build>>

MockStart ==
    /\ Len(server.Trace) < MaxOps
    /\ \E r \in {Start(server)} :
       /\ server' = r.s
       /\ ret' = [op |-> "Start", pre |-> World, err |-> r.err]
    /\ UNCHANGED <<conns, build>>

MockReadStatus ==
    /\ Len(server.Trace) < MaxOps
    /\ \E r \in {ReadStatus(server)} :
       /\ server' = r.s
       /\ ret' = [op |-> "ReadStatus", pre |-> World, err |-> r.err]
    /\ UNCHANGED <<conns, build>>

MockRead ==
    /\ Len(server.Trace) < MaxOps
    /\ \E r \in {Read(server)} :
       /\ server' = r.s
       /\ ret' = [op |-> "Read", pre |-> World, err |-> r.err]
    /\ UNCHANGED <<conns, build>>

MockWrite ==
    /\ Len(server.Trace) < MaxOps
    /\ \E r \in {Write(server)} :
       /\ server' = r.s
       /\ ret' = [op |-> "Write", pre |-> World, err |-> r.err]
    /\ UNCHANGED <<conns, build>>

MockReadMessage ==
    /\ Len(server.Trace) < MaxOps
    /\ \E r \in {ReadMessage(server)} :
       /\ server' = r.s
       /\ ret' = [op |-> "ReadMessage", pre |-> World, err |-> r.err]
    /\ UNCHANGED <<conns, build>>

MockReadUntilEof ==
    /\ Len(server.Trace) < MaxOps
    /\ \E r \in {ReadUntilEof(server)} :
       /\ server' = r.s
       /\ ret' = [op |-> "ReadUntilEof", pre |-> World, err |-> r.err]
    /\ UNCHANGED <<conns, build>>

MockSendMessage ==
    /\ Len(server.Trace) < MaxOps
    /\ \E msg \in {<<"m">>, <<"n">>} :
           \E r \in {SendMessage(server, msg)} :
           /\ server' = r.s
           /\ ret' = [op |-> "SendMessage", pre |-> World, err |-> r.err]
    /\ UNCHANGED <<conns, build>>

MockNewSyncScanner ==
    /\ Len(server.Trace) < MaxOps
    /\ \E r \in {NewSyncScanner(server)} :
       /\ server' = r.s
       /\ ret' = [op |-> "NewSyncScanner", pre |-> World, err |-> r.err]
    /\ UNCHANGED <<conns, build>>

MockNewSyncSender ==
    /\ Len(server.Trace) < MaxOps
    /\ \E r \in {NewSyncSender(server)} :
       /\ server' = r.s
       /\ ret' = [op |-> "NewSyncSender", pre |-> World, err |-> r.err]
    /\ UNCHANGED <<conns, build>>

MockClose ==
    /\ Len(server.Trace) < MaxOps
    /\ \E r \in {Close(server)} :
       /\ server' = r.s
       /\ ret' = [op |-> "Close", pre |-> World, err |-> r.err]
    /\ UNCHANGED <<conns, build>>

NextMock ==
    \/ MockDial
    \/ MockStart
    \/ MockReadStatus
    \/ MockRead
    \/ MockWrite
    \/ MockReadMessage
    \/ MockReadUntilEof
    \/ MockSendMessage
    \/ MockNewSyncScanner
    \/ MockNewSyncSender
    \/ MockClose

SpecMock == InitMock /\ [][NextMock]_vars

(***************************************************************************)
(* Specification of dialDevice alone.  A server that answers FAIL is the   *)
(* status read returning the AdbError that holds the server's message.     *)
(***************************************************************************)
AdbErr == [kind |-> "AdbError", msg |-> "server error"]

\* Errs that let the first k operations pass and fail the next one, with
\* either error
DialErrLists ==
    {<<>>} \cup {[i \in 1..k |-> nil] \o <<e>> : k \in 0..MaxErrs, e \in {NetErr, AdbErr}}

InitDial ==
    /\ server \in {NewMockServer(errs, msgs) : errs \in DialErrLists, msgs \in MessageLists}
    /\ conns = <<>>
    /\ ret = NoCall
    /\ build = [intSize |-> 64, nilClose |-> "panic"]

CallDialDevice ==
    /\ ret.op = "none"
    /\ \E r \in {dialDevice(World)} :
       /\ server' = r.w.s
       /\ conns' = r.w.c
       /\ ret' = [op |-> "dialDevice", pre |-> World, conn |-> r.conn, err |-> r.err]
    /\ UNCHANGED build

NextDial == CallDialDevice

SpecDial == InitDial /\ [][NextDial]_vars

(***************************************************************************)
(* Specification of ForwardSpec alone: the initial states hold a           *)
(* ForwardSpec f, a target ForwardSpec and a string; the actions print f,  *)
(* parse the string into the target, or parse what f prints.               *)
(***************************************************************************)
PartPool == {<<>>, <<"t">>, <<"8", "9">>, <<"a", COLON, "b">>, <<COLON>>}

ForwardSpecs == [Protocol : PartPool, PortOrName : PartPool]

TargetPool == {ZeroForwardSpec, [Protocol |-> <<"u">>, PortOrName |-> <<"d">>]}

StrPool ==
    { <<>>, <<"t", "8">>, <<"t", COLON, "8">>, <<COLON>>,
      <<"t", COLON, "8", COLON>>, <<"a", COLON, "b", COLON, "c">> }

InitFS ==
    /\ server = NewMockServer(<<>>, <<>>)
    /\ conns = <<>>
    /\ build = [intSize |-> 64, nilClose |-> "panic"]
    /\ \E f \in ForwardSpecs, target \in TargetPool, str \in StrPool :
           ret = [op |-> "spec", f |-> f, target |-> target, str |-> str]

CallString ==
    /\ ret.op = "spec"
    /\ ret' = [op |-> "String", f |-> ret.f, out |-> String(ret.f)]
    /\ UNCHANGED <<server, conns, build>>

CallParseString ==
    /\ ret.op = "spec"
    /\ \E r \in {parseString(ret.target, ret.str)} :
       ret' = [op |-> "parseString", target |-> ret.target, str |-> ret.str,
               spec |-> r.spec, err |-> r.err]
    /\ UNCHANGED <<server, conns, build>>

CallParseOfString ==
    /\ ret.op = "spec"
    /\ \E r \in {parseString(ret.target, String(ret.f))} :
       ret' = [op |-> "parseOfString", f |-> ret.f, target |-> ret.target,
               str |-> String(ret.f), spec |-> r.spec, err |-> r.err]
    /\ UNCHANGED <<server, conns, build>>

NextFS ==
    \/ CallString
    \/ CallParseString
    \/ CallParseOfString

SpecFS == InitFS /\ [][NextFS]_vars

(***************************************************************************)
(* Specification of a file transfer.  ExampleDoSyncLocalFile is the        *)
(* observer: ret holds its position and its awr, the AsyncWriter that      *)
(* DoSyncLocalFile returned.  The transfer runs beside it; awr.pc is the   *)
(* position of the transfer.  C, DoneCopy and Done are the three signals:  *)
(* a tick is published without waiting and is dropped or kept until it is  *)
(* received, DoneCopy holds its one signal until it is received, Done      *)
(* stays once given.                                                       *)
(***************************************************************************)
newAsyncWriter(totalSize) ==
    [TotalSize |-> totalSize, bytesCompleted |-> 0, C |-> 0, DoneCopy |-> 0,
     Done |-> FALSE, err |-> nil, pc |-> "copy"]

\* A publish that waits until the tick before it was received.
publishTick_Blocking(c) == IF c = 0 THEN {1} ELSE {}

\* what C holds after a tick is published on it: the tick is kept for the
\* observer or dropped, and the publisher goes on either way
publishTick(c) == {c, 1}

InitSync ==
    /\ server = NewMockServer(<<>>, <<>>)
    /\ conns = <<>>
    /\ build = [intSize |-> 64, nilClose |-> "panic"]
    /\ \E totalSize \in 0..MaxSize :
           ret = [op |-> "ExampleDoSyncLocalFile", pc |-> "Loop",
                  awr |-> newAsyncWriter(totalSize), seen |-> 0, copyError |-> nil]

\* the transfer writes the next chunk, counts it and publishes a tick
WriteChunk ==
    /\ ret.op = "ExampleDoSyncLocalFile"
    /\ ret.awr.pc = "copy"
    /\ \E n \in 1..MaxChunk, c \in publishTick(ret.awr.C) :
           /\ ret.awr.bytesCompleted + n <= ret.awr.TotalSize
           /\ ret' = [ret EXCEPT !.awr.bytesCompleted = @ + n, !.awr.C = c]
    /\ UNCHANGED <<server, conns, build>>

\* the copy loop has written the whole file
CopyFinished ==
    /\ ret.op = "ExampleDoSyncLocalFile"
    /\ ret.awr.pc = "copy"
    /\ ret.awr.bytesCompleted = ret.awr.TotalSize
    /\ ret' = [ret EXCEPT !.awr.DoneCopy = 1, !.awr.pc = "ack"]
    /\ UNCHANGED <<server, conns, build>>

\* the copy loop ends on a failed read or write
CopyFailed ==
    /\ ret.op = "ExampleDoSyncLocalFile"
    /\ ret.awr.pc = "copy"
    /\ ret.awr.bytesCompleted < ret.awr.TotalSize
    /\ ret' = [ret EXCEPT !.awr.DoneCopy = 1, !.awr.pc = "ack", !.awr.err = NetErr]
    /\ UNCHANGED <<server, conns, build>>

\* the server has acknowledged or rejected the file: the operation is over
Acknowledged ==
    /\ ret.op = "ExampleDoSyncLocalFile"
    /\ ret.awr.pc = "ack"
    /\ \E e \in {ret.awr.err} \cup (IF ret.awr.err = nil THEN {AdbErr} ELSE {}) :
           ret' = [ret EXCEPT !.awr.Done = TRUE, !.awr.pc = "done", !.awr.err = e]
    /\ UNCHANGED <<server, conns, build>>

\* case <-awr.C: the observer logs awr.BytesCompleted()
ReceiveC ==
    /\ ret.op = "ExampleDoSyncLocalFile"
    /\ ret.pc = "Loop"
    /\ ret.awr.C = 1
    /\ ret' = [ret EXCEPT !.awr.C = 0, !.seen = ret.awr.bytesCompleted]
    /\ UNCHANGED <<server, conns, build>>

\* case <-awr.DoneCopy
ReceiveDoneCopy ==
    /\ ret.op = "ExampleDoSyncLocalFile"
    /\ ret.pc = "Loop"
    /\ ret.awr.DoneCopy = 1
    /\ ret' = [ret EXCEPT !.awr.DoneCopy = 0]
    /\ UNCHANGED <<server, conns, build>>

\* case <-awr.Done: break Loop, then the observer logs awr.Err()
ReceiveDone ==
    /\ ret.op = "ExampleDoSyncLocalFile"
    /\ ret.pc = "Loop"
    /\ ret.awr.Done
    /\ ret' = [ret EXCEPT !.pc = "end", !.copyError = ret.awr.err]
    /\ UNCHANGED <<server, conns, build>>

NextSync ==
    \/ WriteChunk
    \/ CopyFinished
    \/ CopyFailed
    \/ Acknowledged
    \/ ReceiveC
    \/ ReceiveDoneCopy
    \/ ReceiveDone

\* The transfer is a goroutine of its own: it takes its next step whenever
\* it has one.  Nothing is assumed of the observer.
SpecSync ==
    /\ InitSync
    /\ [][NextSync]_vars
    /\ WF_vars(WriteChunk)
    /\ WF_vars(CopyFinished)
    /\ WF_vars(Acknowledged)

(***************************************************************************)
(* Claims about prepareCommandLine                                         *)
(***************************************************************************)
HasQuote(a) == \E i \in 1..Len(a) : a[i] = DQ

HasSpace(a) == \E i \in 1..Len(a) : a[i] \in {SP, TAB, LF, CR}

NoQuotes(args) == \A i \in 1..Len(args) : ~HasQuote(args[i])

NonBlank(cmd) == \E i \in 1..Len(cmd) : cmd[i] \notin {SP, TAB, LF, CR}

\* c, then each argument in order after one space, an argument with
\* whitespace between one pair of double quotes
RECURSIVE ExpectedLine(_, _)
ExpectedLine(line, args) ==
    IF args = <<>> THEN line
    ELSE ExpectedLine(line \o <<SP>>
                        \o (IF HasSpace(Head(args))
                            THEN <<DQ>> \o Head(args) \o <<DQ>>
                            ELSE Head(args)),
                      Tail(args))

PclDone == ret.op = "prepareCommandLine"

\* C1 as stated: for every non-empty command c and arguments without double
\* quotes, prepareCommandLine returns no error and c followed by the
\* arguments, space-joined, those with whitespace quoted.
C1_AsStated ==
    (PclDone /\ ret.cmd # <<>> /\ NoQuotes(ret.args))
        => /\ ret.err = nil
           /\ ret.out = ExpectedLine(ret.cmd, ret.args)

\* C1 amended: the same for every command c that is not blank, that is, that
\* holds at least one character that is not whitespace.
C1_NonBlankCommandLine ==
    (PclDone /\ NonBlank(ret.cmd) /\ NoQuotes(ret.args))
        => /\ ret.err = nil
           /\ ret.out = ExpectedLine(ret.cmd, ret.args)
           /\ (ret.args = <<>> => ret.out = ret.cmd)

C1_Witness ==
    /\ PclDone /\ NonBlank(ret.cmd) /\ NoQuotes(ret.args)
    /\ Len(ret.args) = 2
    /\ HasSpace(ret.args[1]) /\ ~HasSpace(ret.args[2]) /\ ret.args[2] # <<>>
    /\ ret.err = nil

FirstQuoted(args) ==
    CHOOSE i \in 1..Len(args) :
        HasQuote(args[i]) /\ \A j \in 1..(i - 1) : ~HasQuote(args[j])

\* What C2 promises of a call that met a double quote.
QuoteFailure ==
    LET k == FirstQuoted(ret.args) IN
    /\ ret.err.kind = "ParseError"
    /\ ret.out = <<>>
    /\ ret.err.index = k - 1
    /\ ret.err.arg = ret.args[k]
    /\ \A j \in (k + 1)..Len(ret.args) : ret.argsAfter[j] = ret.args[j]

\* C2 as stated: if any argument contains a double quote, prepareCommandLine
\* fails with a ParseError and an empty result, naming the 0-based index of
\* the first such argument and that argument; later arguments are not touched.
C2_AsStated ==
    (PclDone /\ ~NoQuotes(ret.args)) => QuoteFailure

\* C2 amended: the same, provided the command is not blank (a blank command
\* fails first, with the AssertionError).
C2_FirstQuoteParseError ==
    (PclDone /\ NonBlank(ret.cmd) /\ ~NoQuotes(ret.args)) => QuoteFailure

C2_Witness ==
    /\ PclDone /\ NonBlank(ret.cmd)
    /\ Len(ret.args) = 2
    /\ HasSpace(ret.args[1]) /\ ~HasQuote(ret.args[1])
    /\ HasQuote(ret.args[2])
    /\ ret.err.kind = "ParseError" /\ ret.err.index = 1

\* C3: a command that is empty or only whitespace fails with the
\* AssertionError "command cannot be empty" and the empty string, whatever
\* the arguments are.
C3_BlankCommandAssertion ==
    (PclDone /\ ~NonBlank(ret.cmd))
        => /\ ret.err.kind = "AssertionError"
           /\ ret.err.msg = "command cannot be empty"
           /\ ret.out = <<>>

C3_Witness ==
    /\ PclDone /\ ret.cmd = <<SP, TAB>>
    /\ Len(ret.args) = 1 /\ HasQuote(ret.args[1])
    /\ ret.err.kind = "AssertionError"

(***************************************************************************)
(* Claims about the shell operations                                       *)
(***************************************************************************)
\* the connections the operation dialed
Dialed == (Len(ret.pre.c) + 1)..Len(conns)

\* the entries of Errs the operation took
TakenErrs == SubSeq(ret.pre.s.Errs, 1, Len(ret.pre.s.Errs) - Len(server.Errs))

\* C4: when prepareCommandLine rejects (cmd, args), OpenCommand and RunCommand
\* return that error and the server has seen nothing: no Dial, no request, no
\* status read, no connection.
C4_ValidationBeforeIO ==
    (ret.op \in {"OpenCommand", "RunCommand"}
        /\ (~NonBlank(ret.cmd) \/ ~NoQuotes(ret.args)))
        => /\ ~ret.panic
           /\ ret.err # nil
           /\ ret.err.cause.kind =
                  (IF ~NonBlank(ret.cmd) THEN "AssertionError" ELSE "ParseError")
           /\ (NonBlank(ret.cmd) =>
                  ret.err.cause.index = FirstQuoted(ret.args) - 1)
           /\ server = ret.pre.s
           /\ server.Trace = <<>> /\ server.Requests = <<>>
           /\ conns = <<>>

C4_Witness ==
    /\ ret.op = "RunCommand"
    /\ NonBlank(ret.cmd) /\ ~NoQuotes(ret.args)
    /\ ret.pre.s.Errs # <<>> /\ ret.pre.s.Messages # <<>>
    /\ ret.err.kind = "ParseError"
    /\ server.Trace = <<>>

\* C5: in OpenCommand, when the shell request or its status fails after
\* dialDevice returned a connection, that connection is closed before
\* OpenCommand returns nil and the error; on success the connection returned
\* is open.
C5_ClosedOnFailure ==
    (ret.op = "OpenCommand" /\ ret.dialed # 0)
        => IF ret.err # nil
           THEN /\ ~ret.panic
                /\ conns[ret.dialed] = "closed"
                /\ ret.conn = 0
           ELSE /\ ret.conn = ret.dialed
                /\ conns[ret.conn] = "open"

\* C6: every connection RunCommand or getSyncConn dialed is closed when the
\* operation returns, but the one getSyncConn hands to its caller.
C6_NoConnectionLeftOpen ==
    (ret.op \in {"RunCommand", "getSyncConn"} /\ ~ret.panic)
        => \A i \in Dialed :
               \/ conns[i] = "closed"
               \/ ret.op = "getSyncConn" /\ ret.err = nil /\ ret.conn = i

\* RunCommand read the output of the shell: no operation of the server failed
ReadOutput ==
    /\ ret.op = "RunCommand"
    /\ server.Trace # <<>>
    /\ server.Trace[Len(server.Trace)] = "ReadUntilEof"
    /\ \A i \in 1..Len(TakenErrs) : TakenErrs[i] = nil

ServerOutput == Concat(ret.pre.s.Messages)

IsWhite(s, from, to) == \A i \in from..to : s[i] \in {SP, TAB, LF, CR}

\* an optional sign, then digits
IsNumeral(d) ==
    /\ d # <<>>
    /\ \A i \in 1..Len(d) :
           \/ IsDigit(d[i])
           \/ i = 1 /\ d[i] \in {"+", "-"} /\ Len(d) > 1

NumeralDigits(d) == IF d[1] \in {"+", "-"} THEN Tail(d) ELSE d

\* the numeral fits the int of the build
FitsInt(d) ==
    ~MagGreater(StripZeros(NumeralDigits(d)),
                IF d[1] = "-" THEN MinIntMag(build.intSize)
                ELSE MaxIntMag(build.intSize))

IsZeroNumeral(d) == \A i \in 1..Len(NumeralDigits(d)) : NumeralDigits(d)[i] = "0"

\* the int a numeral denotes, as Go prints it
IntOf(d) ==
    IF IsZeroNumeral(d) THEN <<"0">>
    ELSE (IF d[1] = "-" THEN <<"-">> ELSE <<>>) \o StripZeros(NumeralDigits(d))

\* t without every CR that an LF follows
RECURSIVE DropCRBeforeLF(_, _)
DropCRBeforeLF(t, n) ==
    IF n = 0 THEN <<>>
    ELSE IF t[n] = CR /\ n < Len(t) /\ t[n + 1] = LF
         THEN DropCRBeforeLF(t, n - 1)
         ELSE Append(DropCRBeforeLF(t, n - 1), t[n])

\* the output is T, ":" at k, whitespace, the numeral at i..j, whitespace
SentinelAt(out, k, i, j) ==
    /\ out[k] = COLON
    /\ k < i /\ i <= j
    /\ IsWhite(out, k + 1, i - 1)
    /\ IsWhite(out, j + 1, Len(out))
    /\ IsNumeral(SubSeq(out, i, j))

\* C7: for the output T + ":" + N, N a decimal integer (one an int holds)
\* between optional whitespace, RunCommand returns T with every CRLF made LF;
\* the error is nil when N is 0, and else a ShellExitError with exit code N.
C7_ExitCodeSplit ==
    ReadOutput =>
        \A k, i, j \in 1..Len(ServerOutput) :
            (SentinelAt(ServerOutput, k, i, j) /\ FitsInt(SubSeq(ServerOutput, i, j)))
                => /\ ret.text = DropCRBeforeLF(SubSeq(ServerOutput, 1, k - 1), k - 1)
                   /\ IsZeroNumeral(SubSeq(ServerOutput, i, j)) => ret.err = nil
                   /\ ~IsZeroNumeral(SubSeq(ServerOutput, i, j))
                         => /\ ret.err.kind = "ShellExitError"
                            /\ ret.err.ExitCode = IntOf(SubSeq(ServerOutput, i, j))

C7_Witness ==
    /\ ReadOutput
    /\ ServerOutput = <<"a", COLON, "b", CR, LF, COLON, "1", "2", CR, LF>>
    /\ ret.text = <<"a", COLON, "b", LF>>
    /\ ret.err.kind = "ShellExitError"
    /\ ret.err.ExitCode = <<"1", "2">>

\* the text after the last ":" of the output, trimmed, is no integer that
\* strconv.Atoi parses: no numeral, or one no int holds
Unparsable(out) ==
    /\ \E k \in 1..Len(out) : out[k] = COLON
    /\ \A k, i, j \in 1..Len(out) :
           SentinelAt(out, k, i, j) => ~FitsInt(SubSeq(out, i, j))

LastColon(out) ==
    CHOOSE k \in 1..Len(out) :
        out[k] = COLON /\ \A m \in (k + 1)..Len(out) : out[m] # COLON

\* C8: when the text after the last ":" does not parse as an integer, the exit
\* code is taken to be 0: RunCommand returns the text before that ":" and a
\* nil error, never a ShellExitError or a parse error.
C8_UnparsableMeansZero ==
    (ReadOutput /\ Unparsable(ServerOutput))
        => /\ ret.err = nil
           /\ ret.text = DropCRBeforeLF(SubSeq(ServerOutput, 1, LastColon(ServerOutput) - 1),
                                        LastColon(ServerOutput) - 1)

\* C9: RunCommandWithExitCode returns the text and the error RunCommand
\* returns for the same command, arguments and server, and its integer is not
\* 0 exactly when the error is a ShellExitError, whose ExitCode it then is.
C9_SameAsRunCommand ==
    (ret.op = "RunCommandWithExitCode" /\ ~ret.panic)
        => LET rc == RunCommand(ret.pre, ret.cmd,
                                [elems |-> ret.args, spare |-> ret.spare], build)
           IN  /\ ret.text = rc.text
               /\ ret.err = rc.err
               /\ (ret.code # Zero) <=> (ret.err.kind = "ShellExitError")
               /\ ret.err.kind = "ShellExitError" => ret.code = ret.err.ExitCode

(***************************************************************************)
(* Claims about the forwarding list                                        *)
(***************************************************************************)
\* the list-forward response of the server
FwdResponse == ret.pre.s.Messages[2]

\* the positions where a field of s starts
FieldStarts(s) ==
    {i \in 1..Len(s) : ~HasSpace(<<s[i]>>) /\ (i = 1 \/ HasSpace(<<s[i - 1]>>))}

\* the n-th field of s
FieldAt(s, n) ==
    LET i == CHOOSE k \in FieldStarts(s) :
                 Cardinality({m \in FieldStarts(s) : m < k}) = n - 1
        j == CHOOSE k \in i..Len(s) :
                 /\ \A m \in i..k : ~HasSpace(<<s[m]>>)
                 /\ (k = Len(s) \/ HasSpace(<<s[k + 1]>>))
    IN  SubSeq(s, i, j)

Colons(tok) == {i \in 1..Len(tok) : tok[i] = COLON}

\* rows of three fields, the second and third of the form protocol:value
WellFormedForwards(s) ==
    /\ Cardinality(FieldStarts(s)) % 3 = 0
    /\ \A n \in 1..Cardinality(FieldStarts(s)) :
           n % 3 # 1 => Cardinality(Colons(FieldAt(s, n))) = 1

SpecOf(tok) ==
    LET c == CHOOSE i \in Colons(tok) : TRUE
    IN  [Protocol |-> SubSeq(tok, 1, c - 1),
         PortOrName |-> SubSeq(tok, c + 1, Len(tok))]

\* the pairs of the first r rows of s that belong to the device serial
RECURSIVE PairsOf(_, _, _)
PairsOf(s, serial, r) ==
    IF r = 0 THEN <<>>
    ELSE PairsOf(s, serial, r - 1) \o
         (IF FieldAt(s, 3 * r - 2) = serial
          THEN << [Serial |-> serial,
                   Local |-> SpecOf(FieldAt(s, 3 * r - 1)),
                   Remote |-> SpecOf(FieldAt(s, 3 * r))] >>
          ELSE <<>>)

\* ForwardList received the answers to both of its requests
GotForwards == ret.op = "ForwardList" /\ server.nextMsgIndex = 2

\* C10: on a well-formed list-forward response, ForwardList returns no error
\* and exactly the rows whose serial is the device's own, in the order of the
\* response, each local and remote field split into protocol and
\* port-or-name; the rows of other serials are dropped.
C10_OwnRowsInOrder ==
    (GotForwards /\ WellFormedForwards(FwdResponse))
        => /\ ret.err = nil
           /\ ret.fs = PairsOf(FwdResponse, ret.descriptor.serial,
                               Cardinality(FieldStarts(FwdResponse)) \div 3)

C10_Witness ==
    /\ GotForwards /\ WellFormedForwards(FwdResponse)
    /\ Cardinality(FieldStarts(FwdResponse)) = 9
    /\ FieldAt(FwdResponse, 4) = OtherSerial
    /\ ret.err = nil
    /\ Len(ret.fs) = 2
    /\ ret.fs[1].Local = [Protocol |-> <<"t">>, PortOrName |-> <<"2">>]
    /\ ret.fs[2].Remote = [Protocol |-> <<"u">>, PortOrName |-> <<"d">>]

\* some local or remote field of s is not protocol:value
HasBadField(s) ==
    \E n \in 1..Cardinality(FieldStarts(s)) :
        n % 3 # 1 /\ Cardinality(Colons(FieldAt(s, n))) # 1

\* C11: if the number of fields of the list-forward response is not divisible
\* by three, or any local or remote field of it is not two colon-delimited
\* parts, ForwardList returns a nil list and an error; a list that is not nil
\* comes only with a nil error.
C11_NoPartialResults ==
    (ret.op = "ForwardList")
        => /\ (~ret.fsNil => ret.err = nil)
           /\ (GotForwards /\ (Cardinality(FieldStarts(FwdResponse)) % 3 # 0
                               \/ HasBadField(FwdResponse)))
                  => (ret.fsNil /\ ret.err # nil)

\* the request of an attribute, for the device of the call
AttrRequest(attr) ==
    HostSerialColon \o ret.descriptor.serial \o <<COLON>> \o attr

\* the positions of Errs that fail
Failing(errs) == {i \in 1..Len(errs) : errs[i] # nil}

\* the serial request failed: one of its Dial, SendMessage, ReadStatus and
\* ReadMessage did
SerialFailed == \E i \in Failing(ret.pre.s.Errs) : i <= 4

NoColon(t) == \A i \in 1..Len(t) : t[i] # COLON

\* what C13 says of printing, and of parsing a string that is not two
\* colon-delimited fields
PrintsAndRejects ==
    /\ ret.op = "String" => ret.out = ret.f.Protocol \o <<COLON>> \o ret.f.PortOrName
    /\ (ret.op \in {"parseString", "parseOfString"}
            /\ Cardinality(Colons(ret.str)) # 1)
           => (ret.err # nil /\ ret.spec = ret.target)

\* C13 as stated: a ForwardSpec prints as protocol:value; for every
\* ForwardSpec f, parsing what f prints succeeds and yields f; parsing a
\* string that is not two colon-delimited fields fails and leaves the target
\* as it was.
C13_AsStated ==
    /\ PrintsAndRejects
    /\ ret.op = "parseOfString" => (ret.err = nil /\ ret.spec = ret.f)

\* C13 amended: the same, the round trip for every ForwardSpec f whose
\* protocol and value hold no ':'.
C13_RoundTripWithoutColons ==
    /\ PrintsAndRejects
    /\ (ret.op = "parseOfString" /\ NoColon(ret.f.Protocol)
            /\ NoColon(ret.f.PortOrName))
           => (ret.err = nil /\ ret.spec = ret.f)

C13_Witness ==
    /\ ret.op = "parseOfString"
    /\ ret.f = [Protocol |-> <<"t">>, PortOrName |-> <<"8", "9">>]
    /\ ret.target = [Protocol |-> <<"u">>, PortOrName |-> <<"d">>]
    /\ ret.str = <<"t", COLON, "8", "9">>
    /\ ret.err = nil /\ ret.spec = ret.f

(***************************************************************************)
(* Claims about the host-scoped operations                                 *)
(***************************************************************************)
\* the host prefix of the device of the call
HostPrefix ==
    IF ret.descriptor.kind = "serial"
    THEN <<"h", "o", "s", "t", "-", "s", "e", "r", "i", "a", "l", COLON>>
             \o ret.descriptor.serial
    ELSE <<"h", "o", "s", "t">>

\* protocol:value
SpecText(f) == f.Protocol \o <<COLON>> \o f.PortOrName

\* the operation string of the call
OperationString ==
    CASE ret.op = "getAttribute" -> ret.name
      [] ret.op = "Forward" ->
             <<"f", "o", "r", "w", "a", "r", "d", COLON>>
                 \o SpecText(ret.local) \o <<";">> \o SpecText(ret.remote)
      [] ret.op = "ForwardRemove" ->
             <<"k", "i", "l", "l", "f", "o", "r", "w", "a", "r", "d", COLON>>
                 \o SpecText(ret.local)
      [] ret.op = "ForwardRemoveAll" ->
             <<"k", "i", "l", "l", "f", "o", "r", "w", "a", "r", "d", "-",
               "a", "l", "l">>

\* the requests the call sent
NewRequests ==
    SubSeq(server.Requests, Len(ret.pre.s.Requests) + 1, Len(server.Requests))

\* the call reached the server and sent its request
RequestSent == \A i \in Failing(ret.pre.s.Errs) : i > 2

\* the server answered the call: no operation failed and, for an attribute,
\* a message was there to read
Answered ==
    /\ \A i \in 1..Len(TakenErrs) : TakenErrs[i] = nil
    /\ ret.op = "getAttribute" => ret.pre.s.nextMsgIndex < Len(ret.pre.s.Messages)

\* C14: getAttribute, Forward, ForwardRemove and ForwardRemoveAll send exactly
\* one request, the host prefix of the device, ":" and the operation string,
\* each ForwardSpec as protocol:value; when the server answers OKAY the
\* operation returns no error.
C14_OneHostRequest ==
    (ret.op \in {"getAttribute", "Forward", "ForwardRemove", "ForwardRemoveAll"})
        => /\ Len(NewRequests) <= 1
           /\ RequestSent
                  => NewRequests = <<HostPrefix \o <<COLON>> \o OperationString>>
           /\ Answered => ret.err = nil

C14_Witness ==
    /\ ret.op = "Forward"
    /\ ret.descriptor.kind = "serial"
    /\ ret.local # ret.remote
    /\ Answered /\ ret.err = nil
    /\ Len(NewRequests) = 1

\* two calls of ForwardRemoveAll in succession, the server answering both
TwiceRemoveAll ==
    /\ ret.op = "ForwardRemoveAll"
    /\ ret.prev.op = "ForwardRemoveAll"
    /\ \A i \in 1..(Len(ret.prev.pre.s.Errs) - Len(server.Errs)) :
           ret.prev.pre.s.Errs[i] = nil

\* what the server saw of the call that r records, whose world after is w
TraceOf(r, w) == SubSeq(w.s.Trace, Len(r.pre.s.Trace) + 1, Len(w.s.Trace))

RequestsOf(r, w) == SubSeq(w.s.Requests, Len(r.pre.s.Requests) + 1, Len(w.s.Requests))

\* C15: ForwardRemoveAll called twice in succession against a server that
\* answers OKAY returns no error on either call; the second call sends the
\* same <hostPrefix>:killforward-all request as the first and goes through
\* the same operations of the server, on a connection of its own.
C15_RemoveAllTwice ==
    TwiceRemoveAll
        => /\ ret.prev.err = nil
           /\ ret.err = nil
           /\ RequestsOf(ret, World) = <<HostPrefix \o <<COLON>> \o OperationString>>
           /\ RequestsOf(ret, World) = RequestsOf(ret.prev, ret.pre)
           /\ TraceOf(ret, World) = TraceOf(ret.prev, ret.pre)
           /\ ret.descriptor = ret.prev.descriptor
           /\ Len(conns) = Len(ret.pre.c) + 1
           /\ \A i \in 1..Len(conns) : conns[i] = "closed"

C15_Witness ==
    /\ TwiceRemoveAll
    /\ ret.calls = 2
    /\ ret.descriptor.kind = "serial"
    /\ ret.err = nil
    /\ Len(server.Requests) = 2
    /\ server.Requests[1] = server.Requests[2]

(***************************************************************************)
(* Claims about DeviceInfo                                                 *)
(***************************************************************************)
\* DeviceInfo got the serial from the server and the list from the lister
Listed ==
    /\ ret.op = "DeviceInfo"
    /\ server.nextMsgIndex = 1
    /\ ret.deviceListFunc.err = nil

ListedSerials ==
    {ret.deviceListFunc.devices[i].Serial : i \in 1..Len(ret.deviceListFunc.devices)}

\* the positions where t occurs in s
Occurrences(s, t) ==
    {i \in 1..(Len(s) - Len(t) + 1) : SubSeq(s, i, i + Len(t) - 1) = t}

PropertiesRead ==
    /\ ret.op = "Properties"
    /\ ~ret.panic
    /\ server.Trace # <<>>
    /\ server.Trace[Len(server.Trace)] = "ReadUntilEof"
    /\ \A i \in 1..Len(TakenErrs) : TakenErrs[i] = nil

\* wifi.interface -> wlan0, wlan.driver.ath -> 0
TestProps ==
    propsOf(<<[key |-> SubSeq(TestPropOutput, 2, 15), val |-> SubSeq(TestPropOutput, 20, 24)],
              [key |-> SubSeq(TestPropOutput, 29, 43), val |-> SubSeq(TestPropOutput, 48, 48)]>>)

\* C17: Properties returns one map entry for every [key]: [value] line of the
\* shell's output, the last line included, with a nil error; for the output
\* of TestProperties these are the two entries wifi.interface -> wlan0 and
\* wlan.driver.ath -> 0.
C17_EveryLineOfOutput ==
    PropertiesRead =>
        /\ ret.err = nil
        /\ ~ret.isNil
        /\ ret.props = propsOf(FindAllStringSubmatch(ServerOutput, 1))
        /\ ServerOutput = TestPropOutput => ret.props = TestProps

(***************************************************************************)
(* Claims about dialDevice                                                 *)
(***************************************************************************)
\* the server answered the request of dialDevice with FAIL
AnsweredFail ==
    /\ ret.op = "dialDevice"
    /\ TakenErrs = <<nil, nil, AdbErr>>

\* C18: dialDevice sends host:<transportDescriptor> on a connection it has
\* just dialed and reads the status; when the server answers FAIL it returns
\* no connection, closes the dialed one and returns the server's message
\* wrapped with "error connecting to device '<descriptor>'"; it returns the
\* connection, open, only when the status read succeeded.
C18_FailWrappedWithContext ==
    ret.op = "dialDevice" =>
        /\ Len(server.Trace) >= 2
               => /\ Len(conns) = Len(ret.pre.c) + 1
                  /\ server.Trace[2] = "SendMessage"
        /\ Len(server.Trace) >= 3 /\ server.Trace[3] = "ReadStatus"
               => server.Requests = <<HostColon \o TransportAny>>
        /\ AnsweredFail
               => /\ ret.conn = 0
                  /\ conns[Len(conns)] = "closed"
                  /\ ret.err.kind = "AdbError"
                  /\ ret.err.msg = "error connecting to device '%s'"
                  /\ ret.err.cause = AdbErr
        /\ ret.conn # 0
               <=> /\ ret.err = nil
                   /\ server.Trace = <<"Dial", "SendMessage", "ReadStatus">>
                   /\ conns[Len(conns)] = "open"

(***************************************************************************)
(* Claims about State                                                      *)
(***************************************************************************)
\* err wraps the error e
Carries(err, e) == "cause" \in DOMAIN err /\ err.cause = e

\* the steps of the call, in order
Steps == SubSeq(server.Trace, Len(ret.pre.s.Trace) + 1, Len(server.Trace))

\* the error that failed the request: one injected into a step before Close,
\* or the end of the messages when the message was read
StepFailures ==
    IF \E i \in Failing(TakenErrs) : Steps[i] # "Close"
    THEN {TakenErrs[i] : i \in {j \in Failing(TakenErrs) : Steps[j] # "Close"}}
    ELSE IF /\ Len(Steps) >= 2
            /\ Steps[Len(Steps) - 1] = "ReadMessage"
            /\ ret.pre.s.nextMsgIndex >= Len(ret.pre.s.Messages)
         THEN {EOFError}
         ELSE {}

\* C19: when the <hostPrefix>:get-state request fails, State returns a
\* non-nil error that carries the failure, as Serial and DevicePath do for
\* their requests; State returns nil only when the request succeeded and the
\* string returned names a state.
C19_StateErrorsPropagate ==
    /\ ret.op \in {"Serial", "DevicePath", "State"}
           => \A e \in StepFailures : ret.err # nil /\ Carries(ret.err, e)
    /\ ret.op = "State"
           => /\ ret.attrErr # nil => Carries(ret.err, ret.attrErr)
              /\ ret.err = nil
                     => /\ ret.attrErr = nil
                        /\ StepFailures = {}
                        /\ ret.pre.s.Messages[ret.pre.s.nextMsgIndex + 1]
                               \in {StateDevice, StateOffline, <<>>}

(***************************************************************************)
(* Claims about the kinds of the errors returned                           *)
(***************************************************************************)
\* the kinds of an *errors.Err
ErrorKinds ==
    {"AssertionError", "ParseError", "NetworkError", "DeviceNotFound", "AdbError"}

\* C20: every non-nil error a Device operation returns is typed: an Err with
\* a kind of the enumeration, or a ShellExitError; never an error without a
\* kind.
C20_ErrorsTyped ==
    (/\ ret.op \in {"OpenCommand", "RunCommand", "RunCommandWithExitCode",
                    "ForwardList", "DeviceInfo"}
     /\ ret.err # nil)
        => ret.err.kind \in ErrorKinds \cup {"ShellExitError"}

(***************************************************************************)
(* Claims about the order of requests on a connection                      *)
(***************************************************************************)
\* the operations that dial a device connection and send a request on it
DeviceOps == {"OpenCommand", "RunCommand", "RunCommandWithExitCode", "getSyncConn"}

\* the positions of Steps that send a message
Sends == {i \in 1..Len(Steps) : Steps[i] = "SendMessage"}

\* the step at position i failed
StepFailed(i) == i <= Len(TakenErrs) /\ TakenErrs[i] # nil

\* C21: on the connection of OpenCommand, RunCommand or getSyncConn there is
\* no pipelining: a ReadStatus that succeeds stands between any two
\* SendMessage steps, the first request is host:<transportDescriptor> and the
\* second shell:<commandLine> or sync:, and no message is sent after a send
\* or a status read has failed.
C21_NoPipelining ==
    ret.op \in DeviceOps =>
        /\ Len(conns) <= Len(ret.pre.c) + 1
        /\ \A i, j \in Sends :
               i < j => /\ j = i + 2
                        /\ Steps[i + 1] = "ReadStatus"
                        /\ ~StepFailed(i) /\ ~StepFailed(i + 1)
        /\ \A i \in 1..Len(Steps) :
               (Steps[i] \in {"SendMessage", "ReadStatus"} /\ StepFailed(i))
                   => \A j \in Sends : j <= i
        /\ Len(server.Requests) <= 2
        /\ Len(server.Requests) >= 1
               => server.Requests[1] = HostColon \o TransportAny
        /\ Len(server.Requests) = 2
               => IF ret.op = "getSyncConn"
                  THEN server.Requests[2] = SyncColon
                  ELSE /\ SubSeq(server.Requests[2], 1, Len(ShellColon)) = ShellColon
                       /\ ret.op = "OpenCommand"
                              => server.Requests[2]
                                     = ShellColon \o prepareCommandLine(ret.cmd, ret.args).out

C21_Witness ==
    /\ ret.op = "OpenCommand"
    /\ Steps = <<"Dial", "SendMessage", "ReadStatus", "SendMessage", "ReadStatus">>
    /\ StepFailed(5)
    /\ Len(server.Requests) = 2
    /\ ret.args # <<>>

(***************************************************************************)
(* Claims about the transfer and its observer                              *)
(***************************************************************************)
\* the transfer has signalled DoneCopy
CopyDone == ret.awr.pc \in {"ack", "done"}

\* C22: the transfer never waits for an observer: whether or not a tick is
\* ever received from C, the transfer signals DoneCopy and then Done; and
\* the bytes completed, as the transfer counts them and as the observer
\* reads them, never decrease and never exceed the total size.
C22_TransferNeverBlocks ==
    /\ [](ret.awr.bytesCompleted <= ret.awr.TotalSize /\ ret.seen <= ret.awr.bytesCompleted)
    /\ [][/\ ret'.awr.bytesCompleted >= ret.awr.bytesCompleted
          /\ ret'.seen >= ret.seen]_vars
    /\ [](ret.awr.Done => CopyDone)
    /\ <>CopyDone
    /\ <>ret.awr.Done

\* the operation is over, more than one tick was published and none received
C22_Witness ==
    /\ ret.awr.Done
    /\ ret.awr.err = nil
    /\ ret.awr.TotalSize > MaxChunk
    /\ ret.awr.bytesCompleted = ret.awr.TotalSize
    /\ ret.awr.C = 1
    /\ ret.seen = 0
    /\ ret.pc = "Loop"

(***************************************************************************)
(* Claims about the MockServer                                             *)
(***************************************************************************)
MockOps ==
    {"Dial", "Start", "ReadStatus", "Read", "Write", "ReadMessage", "ReadUntilEof",
     "SendMessage", "NewSyncScanner", "NewSyncSender", "Close"}

\* t is what is left of s after some of its first elements are removed
IsSuffix(t, s) ==
    Len(t) <= Len(s) /\ t = SubSeq(s, Len(s) - Len(t) + 1, Len(s))

\* C23: Errs is a queue.  Every operation performed while Errs is non-empty
\* removes the head of Errs and nothing else; if the head is not nil the
\* operation returns it and changes nothing but the Trace, if it is nil the
\* operation goes on as without it.  Errs never grows and keeps its order.
C23_ErrsIsQueue ==
    ret.op \in MockOps =>
        /\ server.Trace = Append(ret.pre.s.Trace, ret.op)
        /\ IsSuffix(server.Errs, ret.pre.s.Errs)
        /\ ret.pre.s.Errs # <<>>
               => /\ server.Errs = Tail(ret.pre.s.Errs)
                  /\ Head(ret.pre.s.Errs) # nil
                         => /\ ret.err = Head(ret.pre.s.Errs)
                            /\ server.Requests = ret.pre.s.Requests
                            /\ server.nextMsgIndex = ret.pre.s.nextMsgIndex
        /\ ret.pre.s.Errs = <<>> => server.Errs = <<>>

(***************************************************************************)
(* Claims about the caller's argument list                                 *)
(***************************************************************************)
\* C24: prepareCommandLine, OpenCommand and RunCommand leave the caller's
\* argument list as it was: when the call returns, with or without an error,
\* every element of the slice passed as args has its original value, and the
\* command of a ShellExitError is the caller's arguments joined, unquoted.
C24_ArgsUnchanged ==
    /\ ret.op = "prepareCommandLine" => ret.argsAfter = ret.args
    /\ (ret.op \in {"OpenCommand", "RunCommand"} /\ ~ret.panic)
           => /\ ret.argsAfter = ret.args
              /\ ret.err.kind = "ShellExitError"
                     => ret.err.Command = Join(ret.args, <<SP>>)

====
